---- MODULE Spec2Model ----
(***************************************************************************)
(* Model of the lottery-predictor repository: the two prediction engines   *)
(* (utils/prediction_algorithm.py, utils/multi_prediction_algorithm.py)    *)
(* and the two predict request handlers that drive them                    *)
(* (routes/lottery.py, routes/multi_lottery.py).                           *)
(*                                                                         *)
(* Confidence values are fixed-point integers in units of 1e-5, so 0.95 is *)
(* 95000.  Number ranges and pick counts of the game profiles are scaled   *)
(* down (49 -> NumHi, 6 -> PickCount, 9 -> DigitHi); thresholds of the     *)
(* code (5, 10, 20, 50 draws, 0.95, ...) keep their values.                *)
(* A random draw of the code is a nondeterministic choice over the values  *)
(* the draw can return.                                                    *)
(***************************************************************************)
EXTENDS Integers, Sequences, FiniteSets, TLC

\* ---------------------------------------------------------------- bounds
\* top of the main number range of the scaled profiles (49 in the source)
NumHi == 4
\* numbers per draw of the scaled set games (6 in the source)
PickCount == 2
\* top digit of the scaled digit games (9 in the source)
DigitHi == 1
\* largest num_predictions / total_predictions a request carries
MaxPredictions == 2
\* largest max_retries a request carries (multi route)
MaxRetries == 2

\* Python's None
None == 0 - 1

\* max_attempts of predict_numbers_from_sheets (500 in the source)
max_attempts == 2

\* ------------------------------------------------------- generic helpers
SeqToSet(s) == {s[i] : i \in DOMAIN s}

Min2(a, b) == IF a <= b THEN a ELSE b

Max2(a, b) == IF a >= b THEN a ELSE b

AbsVal(a) == IF a >= 0 THEN a ELSE 0 - a

RECURSIVE SortedSeq(_)
\* sorted(S) for a set of integers
SortedSeq(S) ==
    IF S = {} THEN <<>>
    ELSE LET m == CHOOSE x \in S : \A y \in S : x <= y
         IN <<m>> \o SortedSeq(S \ {m})

RECURSIVE SumSeq(_)
SumSeq(s) == IF s = <<>> THEN 0 ELSE Head(s) + SumSeq(Tail(s))

\* s[:n]
Take(s, n) == SubSeq(s, 1, Min2(n, Len(s)))

\* number of positions of s holding x
CountIn(s, x) == Cardinality({i \in DOMAIN s : s[i] = x})

\* all k-element subsets of S: what random.sample(S, k) can return, as sets
KSubsets(S, k) == {T \in SUBSET S : Cardinality(T) = k}

\* collections.Counter over the sequence of keys ks: <<key, count>> pairs in
\* first-insertion order
CounterOf(ks) ==
    LET firsts == SelectSeq([i \in DOMAIN ks |-> i],
                            LAMBDA i : \A j \in 1..(i - 1) : ks[j] # ks[i])
    IN [p \in DOMAIN firsts |-> <<ks[firsts[p]], CountIn(ks, ks[firsts[p]])>>]

RECURSIVE StableDesc(_)
\* sorted(items, key=count, reverse=True): descending by count, equal counts
\* keep their insertion order (Python's sort is stable, also with reverse)
StableDesc(items) ==
    IF items = <<>> THEN <<>>
    ELSE LET i == CHOOSE i \in DOMAIN items :
                     /\ \A j \in DOMAIN items : items[j][2] <= items[i][2]
                     /\ \A j \in 1..(i - 1) : items[j][2] < items[i][2]
             rest == [p \in 1..(Len(items) - 1) |->
                         IF p < i THEN items[p] ELSE items[p + 1]]
         IN <<items[i]>> \o StableDesc(rest)

\* variant: equal counts in reverse insertion order
MostCommon_last_inserted_first(items, n) ==
    LET s == StableDesc([p \in DOMAIN items |-> items[Len(items) + 1 - p]])
    IN [p \in 1..Min2(n, Len(s)) |-> s[p][1]]

\* the keys of the first n entries of a descending stable sort:
\* Counter.most_common(n) and sorted(...)[:n]
MostCommon(items, n) ==
    LET s == StableDesc(items)
    IN [p \in 1..Min2(n, Len(s)) |-> s[p][1]]

\* ------------------------------------------------ game profiles (multi)
\* MultiLotteryPredictionAlgorithm.game_configs, scaled.  name is the ASCII
\* key the game_bonus table of _calculate_confidence resolves the display
\* name to; weights are in hundredths.
game_configs ==
    [lotto649 |->
        [name |-> "lotto649", number_range |-> <<1, NumHi>>,
         number_count |-> PickCount, special_number |-> TRUE,
         special_range |-> <<1, NumHi>>, is_digit_game |-> FALSE,
         weights |-> [frequency |-> 30, pattern |-> 30, trend |-> 20, random |-> 20]],
     superlotto638 |->
        [name |-> "superlotto638", number_range |-> <<1, NumHi - 1>>,
         number_count |-> PickCount, special_number |-> TRUE,
         special_range |-> <<1, NumHi \div 2>>, is_digit_game |-> FALSE,
         weights |-> [frequency |-> 30, pattern |-> 30, trend |-> 20, random |-> 20]],
     dailycash |->
        [name |-> "dailycash", number_range |-> <<1, NumHi - 1>>,
         number_count |-> PickCount, special_number |-> FALSE,
         special_range |-> <<0, 0>>, is_digit_game |-> FALSE,
         weights |-> [frequency |-> 35, pattern |-> 35, trend |-> 15, random |-> 15]],
     stars3 |->
        [name |-> "3stars", number_range |-> <<0, DigitHi>>,
         number_count |-> PickCount, special_number |-> FALSE,
         special_range |-> <<0, 0>>, is_digit_game |-> TRUE,
         weights |-> [frequency |-> 40, pattern |-> 30, trend |-> 20, random |-> 10]],
     stars4 |->
        [name |-> "4stars", number_range |-> <<0, DigitHi>>,
         number_count |-> PickCount, special_number |-> FALSE,
         special_range |-> <<0, 0>>, is_digit_game |-> TRUE,
         weights |-> [frequency |-> 40, pattern |-> 30, trend |-> 20, random |-> 10]],
     bingobingo |->
        [name |-> "bingobingo", number_range |-> <<1, NumHi + 1>>,
         number_count |-> PickCount + 1, special_number |-> FALSE,
         special_range |-> <<0, 0>>, is_digit_game |-> FALSE,
         weights |-> [frequency |-> 25, pattern |-> 25, trend |-> 25, random |-> 25]],
     lotto39 |->
        [name |-> "39lotto", number_range |-> <<1, NumHi - 1>>,
         number_count |-> PickCount, special_number |-> FALSE,
         special_range |-> <<0, 0>>, is_digit_game |-> FALSE,
         weights |-> [frequency |-> 35, pattern |-> 35, trend |-> 15, random |-> 15]],
     lotto49 |->
        [name |-> "49lotto", number_range |-> <<1, NumHi>>,
         number_count |-> PickCount, special_number |-> FALSE,
         special_range |-> <<0, 0>>, is_digit_game |-> FALSE,
         weights |-> [frequency |-> 30, pattern |-> 30, trend |-> 20, random |-> 20]]]

get_supported_games == DOMAIN game_configs

get_game_config(game_type) == game_configs[game_type]

NumberRange(config) == config.number_range[1]..config.number_range[2]

SpecialRange(config) == config.special_range[1]..config.special_range[2]

\* result dictionary of a prediction method
Candidate(numbers, special, confidence, method, data_count, min_confidence) ==
    [predicted_numbers |-> numbers, predicted_special |-> special,
     confidence |-> confidence, method |-> method, data_count |-> data_count,
     meets_confidence |-> confidence >= min_confidence]

\* ------------------------------------------- multi engine: random draws
\* random.uniform(-0.05, 0.05), at its two ends
UniformPM5 == {0 - 5000, 5000}

\* random.uniform(0.45, 0.65), at its two ends
Uniform4565 == {45000, 65000}

\* variant: the numbers of every game drawn with replacement
_generate_random_numbers_with_replacement(config) ==
    [1..config.number_count -> NumberRange(config)]

_generate_random_numbers(config) ==
    IF config.is_digit_game
    THEN [1..config.number_count -> NumberRange(config)]
    ELSE {SortedSeq(T) : T \in KSubsets(NumberRange(config), config.number_count)}

_generate_random_prediction(config, min_confidence) ==
    {Candidate(nums, sp, cf, "random", 0, min_confidence) :
        nums \in _generate_random_numbers(config),
        sp \in (IF config.special_number THEN SpecialRange(config) ELSE {None}),
        cf \in Uniform4565}

\* ------------------------------------- multi engine: frequency analysis
RECURSIVE AllNumbers(_)
\* the numbers of all draws, in draw order
AllNumbers(data) ==
    IF data = <<>> THEN <<>> ELSE Head(data).numbers \o AllNumbers(Tail(data))

RECURSIVE DrawIndexes(_, _)
\* for every number occurrence of AllNumbers, the index of its draw
DrawIndexes(data, i) ==
    IF i > Len(data) THEN <<>>
    ELSE [p \in DOMAIN data[i].numbers |-> i - 1] \o DrawIndexes(data, i + 1)

\* number_intervals[num]: distances between consecutive occurrences
number_intervals(data, num) ==
    LET all == AllNumbers(data)
        idx == DrawIndexes(data, 1)
        occ == SelectSeq([p \in DOMAIN all |-> p], LAMBDA p : all[p] = num)
    IN [q \in 1..(Len(occ) - 1) |-> idx[occ[q + 1]] - idx[occ[q]]]

\* number_weights of _frequency_analysis as an integer numerator over the
\* common denominator total_draws * number_count + range size:
\* (freq + 1) / (expected_freq + 1), doubled when the intervals have zero
\* deviation.  With a positive deviation the code multiplies by
\* 1 + avg / (draws / range) / std, an irrational factor of at least 1; the
\* numerator keeps the factor 1, which has the sign of the code's weight
\* (the cumulative scan below depends on the signs only).
number_weights(config, data) ==
    LET all == AllNumbers(data)
        size == config.number_range[2] - config.number_range[1] + 1
    IN [num \in NumberRange(config) |->
          LET iv == number_intervals(data, num)
              weight == (CountIn(all, num) + 1) * size
          IN IF iv # <<>> /\ (\A q \in DOMAIN iv : iv[q] = iv[1])
             THEN weight * 2 ELSE weight]

\* the entries the cumulative scan 'rand_val <= cumulative' can stop at for
\* rand_val = random.uniform(0, total_weight): every entry of positive
\* weight, and the first entry (rand_val = 0); any entry when the total is 0
ScanChoices(avail, weights) ==
    IF \A n \in avail : weights[n] = 0 THEN avail
    ELSE {n \in avail : weights[n] > 0 \/ (\A m \in avail : n <= m)}

RECURSIVE WeightedPicks(_, _, _)
WeightedPicks(avail, weights, k) ==
    IF k = 0 \/ avail = {} THEN {{}}
    ELSE UNION {{{n} \cup T : T \in WeightedPicks(avail \ {n}, weights, k - 1)} :
                    n \in ScanChoices(avail, weights)}

_select_weighted_numbers(config, weights) ==
    {SortedSeq(T) : T \in WeightedPicks(NumberRange(config), weights, config.number_count)}

_select_digit_numbers(config, weights) ==
    [1..config.number_count -> ScanChoices(NumberRange(config), weights)]

\* special_freq: Counter of the special numbers of the draws that carry one
special_freq(data) ==
    LET with == SelectSeq(data, LAMBDA d : "special_number" \in DOMAIN d)
    IN CounterOf([i \in DOMAIN with |-> with[i].special_number])

_predict_special_number(config, sfreq) ==
    IF sfreq = <<>> THEN SpecialRange(config)
    ELSE SeqToSet(MostCommon(sfreq, 3))

base_confidence(method) ==
    CASE method = "frequency" -> 65000
      [] method = "pattern" -> 70000
      [] method = "hybrid" -> 75000
      [] method = "ml" -> 80000
      [] OTHER -> 65000

data_bonus(data_count) ==
    IF data_count >= 50 THEN 15000
    ELSE IF data_count >= 20 THEN 10000
    ELSE IF data_count >= 10 THEN 5000
    ELSE 0

\* game_bonus: the display name is rewritten to a key of the table; a name
\* without an entry ("39lotto": the table has "38lotto") gets 0.0
game_bonus(config) ==
    CASE config.name = "dailycash" -> 5000
      [] config.name = "lotto1224" -> 0 - 5000
      [] config.name = "3stars" -> 10000
      [] config.name = "4stars" -> 8000
      [] config.name = "bingobingo" -> 0 - 10000
      [] config.name = "38lotto" -> 5000
      [] OTHER -> 0

_calculate_confidence(config, data, method) ==
    {Max2(30000, Min2(95000,
        base_confidence(method) + data_bonus(Len(data)) + game_bonus(config) + r)) :
        r \in UniformPM5}

_frequency_analysis(config, data, min_confidence) ==
    {Candidate(nums, sp, cf, "frequency_analysis", Len(data), min_confidence) :
        nums \in (IF config.is_digit_game
                  THEN _select_digit_numbers(config, number_weights(config, data))
                  ELSE _select_weighted_numbers(config, number_weights(config, data))),
        sp \in (IF config.special_number
                THEN _predict_special_number(config, special_freq(data))
                ELSE {None}),
        cf \in _calculate_confidence(config, data, "frequency")}

\* _pattern_recognition passes six arguments to _select_pattern_numbers
\* (line 270), which takes three (lines 489-490): the call raises TypeError
\* on every dataset and the except clause answers with the random prediction
_pattern_recognition(config, data, min_confidence) ==
    _generate_random_prediction(config, min_confidence)

\* ------------------------------------------------- multi engine: hybrid
\* random.sample(S, k) as a list: the k-arrangements of S
RECURSIVE Arrangements(_, _)
Arrangements(S, k) ==
    IF k = 0 THEN {<<>>}
    ELSE UNION {{<<x>> \o a : a \in Arrangements(S \ {x}, k - 1)} : x \in S}

_analyze_trends(config, data) ==
    IF Len(data) < 5 THEN _generate_random_numbers(config)
    ELSE LET recent_data == SubSeq(data, Len(data) - 4, Len(data))
             recent_freq == CounterOf(AllNumbers(recent_data))
             trend_numbers == MostCommon(recent_freq, config.number_count)
             available == NumberRange(config) \ SeqToSet(trend_numbers)
             needed == config.number_count - Len(trend_numbers)
         IN IF Len(trend_numbers) < config.number_count
            THEN {Take(trend_numbers \o a, config.number_count) :
                     a \in Arrangements(available, Min2(needed, Cardinality(available)))}
            ELSE {Take(trend_numbers, config.number_count)}

\* number_scores after the four loops of _hybrid_prediction: <<number,
\* score>> in the order the keys were inserted, scores in hundredths
number_scores(weights, freq_numbers, pattern_numbers, trend_numbers, random_numbers) ==
    LET keys == CounterOf(freq_numbers \o pattern_numbers \o trend_numbers \o random_numbers)
    IN [p \in DOMAIN keys |->
          <<keys[p][1],
            weights.frequency * CountIn(freq_numbers, keys[p][1])
            + weights.pattern * CountIn(pattern_numbers, keys[p][1])
            + weights.trend * CountIn(trend_numbers, keys[p][1])
            + weights.random * CountIn(random_numbers, keys[p][1])>>]

_select_top_numbers(config, scores) ==
    LET selected == MostCommon(scores, config.number_count)
        available == NumberRange(config) \ SeqToSet(selected)
        needed == config.number_count - Len(selected)
    IN IF Len(selected) < config.number_count
       THEN {SortedSeq(SeqToSet(selected) \cup T) :
                T \in KSubsets(available, Min2(needed, Cardinality(available)))}
       ELSE {SortedSeq(SeqToSet(selected))}

\* scores.get(digit, 0)
ScoreOf(scores, digit) ==
    IF \E p \in DOMAIN scores : scores[p][1] = digit
    THEN scores[CHOOSE p \in DOMAIN scores : scores[p][1] = digit][2]
    ELSE 0

\* every position adds random.uniform(0, 0.2) to each digit's score and takes
\* the first digit of maximal score: a digit can win when its score plus 0.2
\* beats the bare score of every earlier digit and reaches that of every
\* later one
_select_top_digit_numbers(config, scores) ==
    LET winners == {d \in NumberRange(config) :
                      \A e \in NumberRange(config) :
                         /\ e < d => ScoreOf(scores, d) + 20 > ScoreOf(scores, e)
                         /\ e > d => ScoreOf(scores, d) + 20 >= ScoreOf(scores, e)}
    IN [1..config.number_count -> winners]

\* a value Python treats as true in 'if freq_result["predicted_special"]:'
Truthy(special) == special # None /\ special # 0

\* predicted_special of _hybrid_prediction from the two sub-results' specials
HybridSpecial(config, freq_special, pattern_special) ==
    LET weights == config.weights
        s1 == IF Truthy(freq_special) THEN <<<<freq_special, weights.frequency>>>> ELSE <<>>
        special_scores ==
            IF ~Truthy(pattern_special) THEN s1
            ELSE IF s1 # <<>> /\ s1[1][1] = pattern_special
                 THEN <<<<freq_special, weights.frequency + weights.pattern>>>>
                 ELSE s1 \o <<<<pattern_special, weights.pattern>>>>
    IN IF ~config.special_number THEN {None}
       ELSE IF special_scores # <<>> THEN {MostCommon(special_scores, 1)[1]}
       ELSE SpecialRange(config)

\* comprehensive confidence of _hybrid_prediction
HybridConfidence(weights, freq_confidence, pattern_confidence) ==
    (freq_confidence * weights.frequency + pattern_confidence * weights.pattern
     + 60000 * weights.trend + 50000 * weights.random) \div 100

_hybrid_prediction(config, data, min_confidence) ==
    LET freq_result == _frequency_analysis(config, data, 0)
        pattern_result == _pattern_recognition(config, data, 0)
        numbers ==
            UNION {LET scores == number_scores(config.weights, fn, pn, tn, rn)
                   IN IF config.is_digit_game
                      THEN _select_top_digit_numbers(config, scores)
                      ELSE _select_top_numbers(config, scores) :
                   fn \in {r.predicted_numbers : r \in freq_result},
                   pn \in {r.predicted_numbers : r \in pattern_result},
                   tn \in _analyze_trends(config, data),
                   rn \in _generate_random_numbers(config)}
        specials ==
            UNION {HybridSpecial(config, fs, ps) :
                   fs \in {r.predicted_special : r \in freq_result},
                   ps \in {r.predicted_special : r \in pattern_result}}
        confidences ==
            {HybridConfidence(config.weights, fc, pc) :
                   fc \in {r.confidence : r \in freq_result},
                   pc \in {r.confidence : r \in pattern_result}}
    IN {Candidate(nums, sp, cf, "hybrid", Len(data), min_confidence) :
           nums \in numbers, sp \in specials, cf \in confidences}

\* --------------------------------------- multi engine: machine learning
RECURSIVE ProdSeq(_)
ProdSeq(s) == IF s = <<>> THEN 1 ELSE Head(s) * ProdSeq(Tail(s))

OddCount(numbers) == Cardinality({i \in DOMAIN numbers : numbers[i] % 2 = 1})

\* int(avg_odd_ratio * number_count) for the average odd ratio of the last
\* five features (the draws len-5 .. len-1), in exact rational arithmetic
target_odd_count(config, data) ==
    LET recent == SubSeq(data, Len(data) - 5, Len(data) - 1)
        lens == [i \in DOMAIN recent |-> Len(recent[i].numbers)]
        L == ProdSeq(lens)
        num == SumSeq([i \in DOMAIN recent |->
                          OddCount(recent[i].numbers) * (L \div lens[i])])
    IN (num * config.number_count) \div (5 * L)

_generate_ml_numbers(config, data) ==
    LET available == NumberRange(config)
        odd_numbers == {n \in available : n % 2 = 1}
        even_numbers == {n \in available : n % 2 = 0}
        odd_take == Min2(target_odd_count(config, data), Cardinality(odd_numbers))
        even_take == Min2(config.number_count - odd_take, Cardinality(even_numbers))
        short == config.number_count - odd_take - even_take
    IN UNION {LET rest == available \ (so \cup se)
              IN {SortedSeq(so \cup se \cup fill) :
                     fill \in KSubsets(rest, Min2(Max2(short, 0), Cardinality(rest)))} :
              so \in KSubsets(odd_numbers, odd_take),
              se \in KSubsets(even_numbers, even_take)}

\* min(0.85, 0.6 + len(historical_data) * 0.01)
MlConfidence(data) == Min2(85000, 60000 + Len(data) * 1000)

_machine_learning_prediction(config, data, min_confidence) ==
    IF Len(data) < 10 THEN _hybrid_prediction(config, data, min_confidence)
    ELSE IF \E i \in 1..(Len(data) - 1) : data[i].numbers = <<>>
         \* ZeroDivisionError in the feature loop: the except clause
         THEN _hybrid_prediction(config, data, min_confidence)
    ELSE {Candidate(nums, sp, MlConfidence(data), "machine_learning", Len(data),
                    min_confidence) :
             nums \in _generate_ml_numbers(config, data),
             sp \in (IF config.special_number
                     THEN _predict_special_number(config, special_freq(data))
                     ELSE {None})}

\* _advanced_statistical_prediction and _neural_network_prediction are
\* defined inside the 'if __name__ == "__main__":' block (lines 719, 750,
\* 1082), not in the class: the dispatch raises AttributeError
MethodRaises(data, method) ==
    data # <<>> /\ method \in {"advanced_statistical", "neural_network"}

\* variant: the final else of the dispatch answers with the frequency analysis
predict_numbers_else_frequency(game_type, data, method, min_confidence) ==
    LET config == get_game_config(game_type)
    IN IF data = <<>> THEN _generate_random_prediction(config, min_confidence)
       ELSE IF method = "frequency" THEN _frequency_analysis(config, data, min_confidence)
       ELSE IF method = "pattern" THEN _pattern_recognition(config, data, min_confidence)
       ELSE IF method = "hybrid" THEN _hybrid_prediction(config, data, min_confidence)
       ELSE IF method = "ml" THEN _machine_learning_prediction(config, data, min_confidence)
       ELSE IF MethodRaises(data, method) THEN {}
       ELSE _frequency_analysis(config, data, min_confidence)

\* the results predict_numbers can return (none when it raises)
predict_numbers(game_type, data, method, min_confidence) ==
    LET config == get_game_config(game_type)
    IN IF data = <<>> THEN _generate_random_prediction(config, min_confidence)
       ELSE IF method = "frequency" THEN _frequency_analysis(config, data, min_confidence)
       ELSE IF method = "pattern" THEN _pattern_recognition(config, data, min_confidence)
       ELSE IF method = "hybrid" THEN _hybrid_prediction(config, data, min_confidence)
       ELSE IF method = "ml" THEN _machine_learning_prediction(config, data, min_confidence)
       ELSE IF MethodRaises(data, method) THEN {}
       ELSE _hybrid_prediction(config, data, min_confidence)

\* --------------------------------------------------- exact rationals
RECURSIVE GCD(_, _)
GCD(a, b) == IF b = 0 THEN a ELSE GCD(b, a % b)

\* the fraction n/d (d > 0) in lowest terms
Rat(n, d) == LET g == GCD(AbsVal(n), d) IN <<n \div g, d \div g>>

RatAdd(a, b) == Rat(a[1] * b[2] + b[1] * a[2], a[2] * b[2])

RatMul(a, b) == Rat(a[1] * b[1], a[2] * b[2])

RatLeq(a, b) == a[1] * b[2] <= b[1] * a[2]

RatMin(a, b) == IF RatLeq(a, b) THEN a ELSE b

RatMax(a, b) == IF RatLeq(a, b) THEN b ELSE a

\* Python's round() of a non-negative fraction to an integer: half to even
RoundHalfEven(r) ==
    LET q == r[1] \div r[2]
        rem2 == 2 * (r[1] % r[2])
    IN IF rem2 < r[2] THEN q
       ELSE IF rem2 > r[2] THEN q + 1
       ELSE IF q % 2 = 0 THEN q ELSE q + 1

\* ------------------------------ single-game engine (LotteryPredictor)
\* LotteryPredictor.__init__: number_range (1, 49), numbers_to_pick 6,
\* special_range (1, 49), scaled
LP_numbers == 1..NumHi

numbers_to_pick == PickCount

\* 'n <= 24' of the source: the lower half of 1..49
LowTop == NumHi \div 2

\* random.uniform(0.8, 1.0), at its two ends, as fractions
Uniform0810 == {<<8, 10>>, <<1, 1>>}

LP_Candidate(numbers, special, method, confidence) ==
    [predicted_numbers |-> numbers, predicted_special |-> special,
     method |-> method, confidence |-> confidence]

LowCount(numbers) == Cardinality({i \in DOMAIN numbers : numbers[i] <= LowTop})

\* _analyze_patterns: avg_odd_count and avg_low_count as fractions
avg_odd_count(data) ==
    Rat(SumSeq([i \in DOMAIN data |-> OddCount(data[i].numbers)]), Len(data))

avg_low_count(data) ==
    Rat(SumSeq([i \in DOMAIN data |-> LowCount(data[i].numbers)]), Len(data))

\* 1 - abs(count - avg) / 6, the 6 being numbers_to_pick
Consistency(count, avg) ==
    LET diff == <<AbsVal(count * avg[2] - avg[1]), avg[2]>>
    IN RatAdd(<<1, 1>>, RatMul(<<0 - 1, numbers_to_pick>>, diff))

\* LotteryPredictor._calculate_confidence for the random factor u; the
\* result of round(min(max(final, 0.1), 0.9), 3), in units of 1e-5
LP_confidence(data, predicted_numbers, u) ==
    LET all == AllNumbers(data)
        number_freq == CounterOf(all)
        \* avg_freq + 1 = (len(all) + len(number_freq)) / len(number_freq)
        predicted_freq_score ==
            Rat(SumSeq([i \in DOMAIN predicted_numbers |->
                           CountIn(all, predicted_numbers[i])]),
                Len(predicted_numbers))
        freq_confidence ==
            RatMin(RatMul(predicted_freq_score,
                          Rat(Len(number_freq), Len(all) + Len(number_freq))),
                   <<1, 1>>)
        odd_consistency == Consistency(OddCount(predicted_numbers), avg_odd_count(data))
        low_consistency == Consistency(LowCount(predicted_numbers), avg_low_count(data))
        data_factor == RatMin(Rat(Len(data), 20), <<1, 1>>)
        final_confidence ==
            RatMul(RatMul(RatAdd(RatAdd(freq_confidence, odd_consistency),
                                 RatAdd(low_consistency, data_factor)),
                          <<1, 4>>), u)
        clamped == RatMin(RatMax(final_confidence, <<1, 10>>), <<9, 10>>)
    IN IF data = <<>> THEN 50000
       ELSE RoundHalfEven(RatMul(clamped, <<1000, 1>>)) * 100

\* 'while predicted_special in predicted_numbers: predicted_special =
\* <random number of the range>': the values the loop can end with
SpecialAfterLoop(first, numbers) ==
    IF first \in numbers THEN LP_numbers \ numbers ELSE {first}

\* number weights of _frequency_based_prediction, in units of
\* 1 / (10 * (total_draws + 1)): (freq + 1) / (total_draws + 1), times 1.2
\* for a number seen in fewer than 10% of the draws
weighted_numbers(data) ==
    LET all == AllNumbers(data)
    IN [num \in LP_numbers |->
          IF 10 * CountIn(all, num) < Len(data)
          THEN (CountIn(all, num) + 1) * 12
          ELSE (CountIn(all, num) + 1) * 10]

RECURSIVE _weighted_selection(_, _, _)
\* the sets np.random.choice can draw without replacement: an entry of
\* probability 0 is never drawn; any entry when the total weight is 0
_weighted_selection(avail, weights, count) ==
    IF count = 0 \/ avail = {} THEN {{}}
    ELSE LET choices == IF \A n \in avail : weights[n] = 0 THEN avail
                        ELSE {n \in avail : weights[n] > 0}
         IN UNION {{{n} \cup T : T \in _weighted_selection(avail \ {n}, weights, count - 1)} :
                      n \in choices}

_frequency_based_prediction(data) ==
    LET special_weights ==
            [num \in LP_numbers |-> CountIn([i \in DOMAIN data |-> data[i].special_number], num) + 1]
    IN UNION {UNION {{LP_Candidate(SortedSeq(T), sp, "frequency",
                                   LP_confidence(data, SortedSeq(T), u)) :
                         sp \in SpecialAfterLoop(first, T), u \in Uniform0810} :
                     first \in UNION _weighted_selection(LP_numbers, special_weights, 1)} :
              T \in _weighted_selection(LP_numbers, weighted_numbers(data), numbers_to_pick)}

_pattern_based_prediction(data) ==
    LET target_odd == RoundHalfEven(avg_odd_count(data))
        odd_numbers == {n \in LP_numbers : n % 2 = 1}
        even_numbers == {n \in LP_numbers : n % 2 = 0}
        odd_take == Min2(target_odd, Cardinality(odd_numbers))
        even_take == Min2(numbers_to_pick - odd_take, Cardinality(even_numbers))
    IN UNION {LET chosen == so \cup se
                  short == Max2(numbers_to_pick - Cardinality(chosen), 0)
              IN UNION {{LP_Candidate(SortedSeq(chosen \cup fill), sp, "pattern",
                                      LP_confidence(data, SortedSeq(chosen \cup fill), u)) :
                            sp \in UNION {SpecialAfterLoop(first, chosen \cup fill) :
                                             first \in LP_numbers},
                            u \in Uniform0810} :
                        fill \in KSubsets(LP_numbers \ chosen, short)} :
              so \in KSubsets(odd_numbers, odd_take),
              se \in KSubsets(even_numbers, even_take)}

\* variant: the boosted mean without the ceiling of 0.95
LP_HybridConfidence_unclamped(freq_confidence, pattern_confidence) ==
    ((freq_confidence + pattern_confidence) * 11) \div 20

\* min((freq + pattern) / 2 * 1.1, 0.95)
LP_HybridConfidence(freq_confidence, pattern_confidence) ==
    Min2(((freq_confidence + pattern_confidence) * 11) \div 20, 95000)

\* special number of _hybrid_prediction: the frequency result's, else the
\* pattern result's, else a random number outside the prediction
LP_HybridSpecial(freq_special, pattern_special, numbers) ==
    IF freq_special \notin numbers THEN {freq_special}
    ELSE IF pattern_special \notin numbers THEN {pattern_special}
    ELSE UNION {SpecialAfterLoop(first, numbers) : first \in LP_numbers}

LP_hybrid_prediction(data) ==
    LET freq_result == _frequency_based_prediction(data)
        pattern_result == _pattern_based_prediction(data)
    IN UNION {LET freq_numbers == SeqToSet(f.predicted_numbers)
                  pattern_numbers == SeqToSet(p.predicted_numbers)
                  high_confidence == freq_numbers \cap pattern_numbers
                  remaining_needed == numbers_to_pick - Cardinality(high_confidence)
                  candidates == (freq_numbers \cup pattern_numbers) \ high_confidence
              IN UNION {{LP_Candidate(SortedSeq(high_confidence \cup additional), sp, "hybrid",
                                      LP_HybridConfidence(f.confidence, p.confidence)) :
                            sp \in LP_HybridSpecial(f.predicted_special, p.predicted_special,
                                                    high_confidence \cup additional)} :
                        additional \in
                            IF Cardinality(candidates) >= remaining_needed
                            THEN KSubsets(candidates, Max2(remaining_needed, 0))
                            ELSE {candidates \cup more :
                                     more \in KSubsets(LP_numbers \ (high_confidence \cup candidates),
                                                       remaining_needed - Cardinality(candidates))}} :
              f \in freq_result, p \in pattern_result}

_random_prediction ==
    UNION {{LP_Candidate(SortedSeq(T), sp, "random", 50000) :
               sp \in UNION {SpecialAfterLoop(first, T) : first \in LP_numbers}} :
           T \in KSubsets(LP_numbers, numbers_to_pick)}

RECURSIVE SpecialScan(_, _, _)
\* 'while predicted_special in predicted_numbers: predicted_special =
\* predicted_special % 49 + 1'; fuel bounds the walk round the range
SpecialScan(special, numbers, fuel) ==
    IF special \notin numbers \/ fuel = 0 THEN special
    ELSE SpecialScan((special % NumHi) + 1, numbers, fuel - 1)

\* int(avg_features[4]) % 49 + 1 for the mean special number of the last
\* min(5, len - 1) features
MlFirstSpecial(data) ==
    LET n == Len(data) - 1
        k == Min2(5, n)
        total == SumSeq([i \in 1..k |-> data[n - k + i].special_number])
    IN ((total \div k) % NumHi) + 1

\* _generate_numbers_with_constraints returns a random sample that meets
\* the constraints or, after 1000 failed samples, any random sample: every
\* numbers_to_pick-subset is a possible result
_ml_based_prediction(data) ==
    IF Len(data) < 2 THEN _random_prediction
    ELSE UNION {{LP_Candidate(SortedSeq(T), SpecialScan(MlFirstSpecial(data), T, NumHi),
                              "ml", LP_confidence(data, SortedSeq(T), u)) :
                    u \in Uniform0810} :
                T \in KSubsets(LP_numbers, numbers_to_pick)}

LP_predict_numbers(data, method) ==
    IF data = <<>> THEN _random_prediction
    ELSE IF method = "frequency" THEN _frequency_based_prediction(data)
    ELSE IF method = "pattern" THEN _pattern_based_prediction(data)
    ELSE IF method = "ml" THEN _ml_based_prediction(data)
    ELSE LP_hybrid_prediction(data)

\* ------------------------------------------------------------- datasets
\* request values of min_confidence: 0.65 and 0.99
MinConfidences == {65000, 99000}

\* the recognized methods of the multi route, and one that is not
valid_methods == {"frequency", "pattern", "hybrid", "ml", "advanced_statistical", "neural_network"}

Methods == valid_methods \cup {"bogus"}

\* the methods asked of the single route's handler
LP_Methods == {"frequency", "pattern", "ml"}

\* draw k of a game: number_count consecutive numbers of the range starting
\* at offset k (wrapping round), special number k of the special range
DrawOf(config, k) ==
    LET lo == config.number_range[1]
        size == config.number_range[2] - lo + 1
        numbers == [p \in 1..config.number_count |-> lo + ((k + p - 1) % size)]
        ssize == config.special_range[2] - config.special_range[1] + 1
    IN IF config.special_number
       THEN [numbers |-> numbers, special_number |-> config.special_range[1] + (k % ssize)]
       ELSE [numbers |-> numbers]

\* a row as get_lottery_data passes it on without validation: one number
\* only, above the range, and no special number
MalformedDraw(config) == [numbers |-> <<config.number_range[2] + 1>>]

\* historical data of len draws: "rotating" (draw i is DrawOf(i)), "constant"
\* (every draw is DrawOf(0)) or "malformed" (the even draws are malformed)
Dataset(config, len, kind) ==
    [i \in 1..len |->
        IF kind = "constant" THEN DrawOf(config, 0)
        ELSE IF kind = "malformed" /\ i % 2 = 0 THEN MalformedDraw(config)
        ELSE DrawOf(config, i)]

\* dataset shapes: below and at the thresholds 5, 10, 20 and 50 of the code
DatasetShapes ==
    {<<0, "rotating">>, <<1, "rotating">>, <<4, "constant">>, <<5, "rotating">>,
     <<6, "malformed">>, <<10, "rotating">>, <<12, "malformed">>, <<20, "constant">>,
     <<50, "rotating">>}

\* a draw as read_historical_data returns it: numbers_to_pick numbers of the
\* range in ascending order, any integer as special number
LP_DrawOf(k) ==
    [numbers |-> SortedSeq({1 + ((k + p - 1) % NumHi) : p \in 1..numbers_to_pick}),
     special_number |-> (k * 3) % (NumHi + 2)]

LP_Dataset(len, kind) ==
    [i \in 1..len |-> IF kind = "constant" THEN LP_DrawOf(0) ELSE LP_DrawOf(i)]

LP_DatasetShapes ==
    {<<0, "rotating">>, <<1, "rotating">>, <<2, "rotating">>, <<3, "constant">>,
     <<5, "rotating">>, <<20, "constant">>, <<21, "rotating">>}

\* ------------------------------------------------------------- state
VARIABLES
    pc,                          \* position in the handler
    route,                       \* "multi": routes/multi_lottery.py, "single": routes/lottery.py
    game_type, method, min_confidence, num_predictions, max_retries,
    historical_data,
    engine_results,              \* what predict_numbers can return for historical_data
    all_predictions,             \* 'predictions' in routes/lottery.py
    attempts,
    best_prediction_this_round,
    max_confidence_this_round,   \* 'highestConfidence' in routes/lottery.py
    prediction_result,           \* 'prediction' in routes/lottery.py
    response,
    round_no,                    \* rounds of the batch loop entered so far
    generation_calls,            \* history: calls to predict_numbers so far
    round_confidences,           \* history: confidences of this round's attempts
    round_outcome,               \* history: how the handler left the current round
    exhausted_rounds,            \* history: rounds in which no attempt met min_confidence
    io_log,                      \* history: the store and crawler operations so far,
                                 \* each with the generation calls made before it
    manager,                     \* "single": GoogleSheetsManager, "multi": MultiGoogleSheetsManager
    worksheet,                   \* the rows of the game's worksheet, below the header
    data,                        \* the 'data' argument of the last store write
    worksheet_before,            \* history: the worksheet before the last store write
    all_records,                 \* worksheet.get_all_records() of a store read
    periods,                     \* the 'periods' parameter of the request
    scorer_weights,              \* the weights a frequency scorer gave the numbers
    recent_counts,               \* 'recent_freq' of the enhanced frequency scorer
    writers                      \* the store writes in progress: position, list, periods read

vars == <<pc, route, game_type, method, min_confidence, num_predictions, max_retries,
          historical_data, engine_results, all_predictions, attempts, best_prediction_this_round,
          max_confidence_this_round, prediction_result, response, round_no,
          generation_calls, round_confidences, round_outcome, exhausted_rounds,
          io_log, manager, worksheet, data, worksheet_before, all_records, periods,
          scorer_weights, recent_counts, writers>>

store_vars == <<manager, worksheet, data, worksheet_before, all_records, periods,
                scorer_weights, recent_counts, writers>>

\* no sheets manager is involved
NoStore ==
    /\ manager = "none"
    /\ worksheet = <<>>
    /\ data = <<>>
    /\ worksheet_before = <<>>
    /\ all_records = <<>>
    /\ periods = 0
    /\ scorer_weights = <<>>
    /\ recent_counts = <<>>
    /\ writers = <<>>

\* an operation on the store or the crawler, as io_log records it
IO(op) == <<op, generation_calls>>

\* Python's None where a prediction dictionary is expected
NoPrediction == [predicted_numbers |-> <<>>, predicted_special |-> None,
                 confidence |-> 0, method |-> "None"]

IsNone(prediction) == prediction.method = "None"

\* no response sent yet
NoResponse == [status |-> 0, predictions |-> <<>>, best_prediction |-> NoPrediction]

\* jsonify(...) with its HTTP status; predictions and best_prediction are
\* the candidates the body carries
Response(status, predictions, best_prediction) ==
    [status |-> status, predictions |-> predictions, best_prediction |-> best_prediction]

loop_vars == <<all_predictions, attempts, best_prediction_this_round,
               max_confidence_this_round, response, round_no, round_confidences,
               round_outcome, exhausted_rounds>>

request_vars == <<route, game_type, method, min_confidence, num_predictions,
                  max_retries, historical_data, engine_results>>

\* --------------------------------------- the engines called on their own
InitEngine ==
    /\ pc = "engine_call"
    /\ route \in {"multi", "single"}
    /\ game_type \in (IF route = "multi" THEN get_supported_games ELSE {"lotto649"})
    /\ method \in Methods
    /\ min_confidence \in MinConfidences
    /\ historical_data \in
         (IF route = "multi"
          THEN {Dataset(get_game_config(game_type), sh[1], sh[2]) : sh \in DatasetShapes}
          ELSE {LP_Dataset(sh[1], sh[2]) : sh \in LP_DatasetShapes})
    /\ engine_results = {}
    /\ num_predictions = 1
    /\ max_retries = 1
    /\ all_predictions = <<>>
    /\ attempts = 0
    /\ best_prediction_this_round = NoPrediction
    /\ max_confidence_this_round = 0
    /\ prediction_result = NoPrediction
    /\ response = NoResponse
    /\ round_no = 0
    /\ generation_calls = 0
    /\ round_confidences = <<>>
    /\ round_outcome = "none"
    /\ exhausted_rounds = 0
    /\ io_log = <<>>
    /\ NoStore

\* MultiLotteryPredictionAlgorithm.predict_numbers returns a result
MultiPredictReturns ==
    /\ pc = "engine_call" /\ route = "multi"
    /\ \E r \in predict_numbers(game_type, historical_data, method, min_confidence) :
          prediction_result' = r
    /\ pc' = "engine_returned"
    /\ generation_calls' = generation_calls + 1
    /\ UNCHANGED <<request_vars, loop_vars>>
    /\ UNCHANGED <<io_log, store_vars>>

\* MultiLotteryPredictionAlgorithm.predict_numbers raises
MultiPredictRaises ==
    /\ pc = "engine_call" /\ route = "multi"
    /\ MethodRaises(historical_data, method)
    /\ pc' = "engine_raised"
    /\ generation_calls' = generation_calls + 1
    /\ UNCHANGED <<request_vars, loop_vars, prediction_result>>
    /\ UNCHANGED <<io_log, store_vars>>

\* LotteryPredictor.predict_numbers returns a result
SinglePredictReturns ==
    /\ pc = "engine_call" /\ route = "single"
    /\ \E r \in LP_predict_numbers(historical_data, method) : prediction_result' = r
    /\ pc' = "engine_returned"
    /\ generation_calls' = generation_calls + 1
    /\ UNCHANGED <<request_vars, loop_vars>>
    /\ UNCHANGED <<io_log, store_vars>>

NextEngine == MultiPredictReturns \/ MultiPredictRaises \/ SinglePredictReturns

SpecEngine == InitEngine /\ [][NextEngine]_vars

\* ------------------------------------- two runs on one random sequence
\* bound: readings of the clock, in half seconds
MaxClock == 3

Clock == 0..MaxClock

\* datetime.now().strftime("%Y-%m-%d %H:%M:%S"): the reading cut to seconds
strftime(now) == now \div 2

\* the dictionary a method of LotteryPredictor returns: the candidate and the
\* prediction_date taken from the clock
Stamped(candidate, now) ==
    [predicted_numbers |-> candidate.predicted_numbers,
     predicted_special |-> candidate.predicted_special,
     method |-> candidate.method,
     confidence |-> candidate.confidence,
     prediction_date |-> strftime(now)]

\* what the random values of a run made of the dictionary
Drawn(result) ==
    [predicted_numbers |-> result.predicted_numbers,
     predicted_special |-> result.predicted_special,
     method |-> result.method,
     confidence |-> result.confidence]

RunShapes == {<<0, "rotating">>, <<2, "rotating">>, <<5, "rotating">>}

RunMethods == {"frequency", "pattern", "hybrid", "ml"}

InitRuns ==
    /\ pc = "first_run"
    /\ route \in {"multi", "single"}
    /\ game_type \in (IF route = "multi" THEN {"lotto649", "stars3"} ELSE {"lotto649"})
    /\ method \in RunMethods
    /\ min_confidence \in MinConfidences
    /\ historical_data \in
         (IF route = "multi"
          THEN {Dataset(get_game_config(game_type), sh[1], sh[2]) : sh \in RunShapes}
          ELSE {LP_Dataset(sh[1], sh[2]) : sh \in RunShapes})
    /\ engine_results =
         (IF route = "multi"
          THEN predict_numbers(game_type, historical_data, method, min_confidence)
          ELSE LP_predict_numbers(historical_data, method))
    /\ num_predictions = 1
    /\ max_retries = 1
    /\ all_predictions = <<>>
    /\ attempts = 0
    /\ best_prediction_this_round = NoPrediction
    /\ max_confidence_this_round = 0
    /\ prediction_result = NoPrediction
    /\ response = NoResponse
    /\ round_no = 0
    /\ generation_calls = 0
    /\ round_confidences = <<>>
    /\ round_outcome = "none"
    /\ exhausted_rounds = 0
    /\ io_log = <<>>
    /\ NoStore

\* MultiLotteryPredictionAlgorithm.predict_numbers, first run
MultiFirstRun ==
    /\ pc = "first_run" /\ route = "multi"
    /\ \E r \in engine_results : prediction_result' = r
    /\ all_predictions' = <<prediction_result'>>
    /\ pc' = "second_run"
    /\ generation_calls' = generation_calls + 1
    /\ UNCHANGED <<request_vars, attempts, best_prediction_this_round,
                   max_confidence_this_round, response, round_no, round_confidences,
                   round_outcome, exhausted_rounds, io_log, store_vars>>

\* the second run on the same inputs: the random source gives the values of
\* the first run again, so every draw of the engine comes out as it did
MultiSecondRun ==
    /\ pc = "second_run" /\ route = "multi"
    /\ \E r \in engine_results :
          /\ r = all_predictions[1]
          /\ prediction_result' = r
    /\ all_predictions' = Append(all_predictions, prediction_result')
    /\ pc' = "runs_done"
    /\ generation_calls' = generation_calls + 1
    /\ UNCHANGED <<request_vars, attempts, best_prediction_this_round,
                   max_confidence_this_round, response, round_no, round_confidences,
                   round_outcome, exhausted_rounds, io_log, store_vars>>

\* LotteryPredictor.predict_numbers, first run
SingleFirstRun ==
    /\ pc = "first_run" /\ route = "single"
    /\ \E r \in engine_results, now \in Clock : prediction_result' = Stamped(r, now)
    /\ all_predictions' = <<prediction_result'>>
    /\ pc' = "second_run"
    /\ generation_calls' = generation_calls + 1
    /\ UNCHANGED <<request_vars, attempts, best_prediction_this_round,
                   max_confidence_this_round, response, round_no, round_confidences,
                   round_outcome, exhausted_rounds, io_log, store_vars>>

\* the second run on the same inputs and the same random values, at a
\* reading of the clock that is not before the first run's
SingleSecondRun ==
    /\ pc = "second_run" /\ route = "single"
    /\ \E r \in engine_results, now \in Clock :
          /\ r = Drawn(all_predictions[1])
          /\ strftime(now) >= all_predictions[1].prediction_date
          /\ prediction_result' = Stamped(r, now)
    /\ all_predictions' = Append(all_predictions, prediction_result')
    /\ pc' = "runs_done"
    /\ generation_calls' = generation_calls + 1
    /\ UNCHANGED <<request_vars, attempts, best_prediction_this_round,
                   max_confidence_this_round, response, round_no, round_confidences,
                   round_outcome, exhausted_rounds, io_log, store_vars>>

NextRuns == MultiFirstRun \/ MultiSecondRun \/ SingleFirstRun \/ SingleSecondRun

SpecRuns == InitRuns /\ [][NextRuns]_vars

\* ------------------------------------------------- the predict handlers
\* what the store and the crawler hand to the multi route
RouteGames == {"stars3", "nosuchgame"}

StoreShapes == {<<0, "rotating">>, <<5, "rotating">>}

CrawlShapes == {<<0, "rotating">>, <<1, "rotating">>}

InitRoute ==
    /\ pc = "start"
    /\ route \in {"multi", "single"}
    /\ game_type \in (IF route = "multi" THEN RouteGames ELSE {"lotto649"})
    /\ method \in (IF route = "multi" THEN Methods ELSE LP_Methods)
    /\ min_confidence \in MinConfidences
    /\ num_predictions \in 0..MaxPredictions
    /\ max_retries \in (IF route = "multi" THEN 0..MaxRetries ELSE {max_attempts})
    /\ historical_data = <<>>
    /\ engine_results = {}
    /\ all_predictions = <<>>
    /\ attempts = 0
    /\ best_prediction_this_round = NoPrediction
    /\ max_confidence_this_round = 0
    /\ prediction_result = NoPrediction
    /\ response = NoResponse
    /\ round_no = 0
    /\ generation_calls = 0
    /\ round_confidences = <<>>
    /\ round_outcome = "none"
    /\ exhausted_rounds = 0
    /\ io_log = <<>>
    /\ NoStore

\* some attempt of the current round reached min_confidence
RoundMet == \E k \in DOMAIN round_confidences : round_confidences[k] >= min_confidence

\* variant: the loop condition with <= for <
WhileCondition_inclusive == attempts <= max_retries

\* 'while attempts < max_retries:'
WhileCondition == attempts < max_retries

\* variant: the list of predictions is never taken for empty
NoPredictions_never(predictions) == FALSE

\* 'if not all_predictions:'
NoPredictions(predictions) == predictions = <<>>

\* variant: only the game type is validated
MultiValidate_game_only ==
    /\ pc = "start" /\ route = "multi"
    /\ IF game_type \notin get_supported_games
       THEN /\ response' = Response(400, <<>>, NoPrediction)
            /\ pc' = "done"
       ELSE /\ pc' = "load"
            /\ UNCHANGED response
    /\ UNCHANGED <<request_vars, all_predictions, attempts, best_prediction_this_round,
                   max_confidence_this_round, prediction_result, round_no,
                   generation_calls, round_confidences, round_outcome, exhausted_rounds>>
    /\ UNCHANGED <<io_log, store_vars>>

\* routes/multi_lottery.py predict_numbers: the two validations
MultiValidate ==
    /\ pc = "start" /\ route = "multi"
    /\ IF game_type \notin get_supported_games \/ method \notin valid_methods
       THEN /\ response' = Response(400, <<>>, NoPrediction)
            /\ pc' = "done"
       ELSE /\ pc' = "load"
            /\ UNCHANGED response
    /\ UNCHANGED <<request_vars, all_predictions, attempts, best_prediction_this_round,
                   max_confidence_this_round, prediction_result, round_no,
                   generation_calls, round_confidences, round_outcome, exhausted_rounds>>
    /\ UNCHANGED <<io_log, store_vars>>

\* sheets_manager.get_lottery_data
MultiReadStore ==
    /\ pc = "load" /\ route = "multi"
    /\ \E sh \in StoreShapes :
          historical_data' = Dataset(get_game_config(game_type), sh[1], sh[2])
    /\ engine_results' = predict_numbers(game_type, historical_data', method, min_confidence)
    /\ io_log' = Append(io_log, IO("read"))
    /\ pc' = IF Len(historical_data') < 5 THEN "crawl" ELSE "for"
    /\ UNCHANGED <<route, game_type, method, min_confidence, num_predictions, max_retries,
                   loop_vars, prediction_result, generation_calls>>
    /\ UNCHANGED store_vars

\* crawler.crawl_lottery_data, and the replacement of the store's data by a
\* non-empty crawl
MultiCrawl ==
    /\ pc = "crawl" /\ route = "multi"
    /\ \E sh \in CrawlShapes :
          LET crawled_data == Dataset(get_game_config(game_type), sh[1], sh[2])
          IN /\ historical_data' =
                  IF crawled_data # <<>> THEN crawled_data ELSE historical_data
             /\ io_log' = io_log \o <<IO("crawl")>>
                             \o (IF crawled_data # <<>> THEN <<IO("write")>> ELSE <<>>)
    /\ engine_results' = predict_numbers(game_type, historical_data', method, min_confidence)
    /\ pc' = "for"
    /\ UNCHANGED <<route, game_type, method, min_confidence, num_predictions, max_retries,
                   loop_vars, prediction_result, generation_calls>>
    /\ UNCHANGED store_vars

\* a round that reads the store again on entry
MultiStartRound_reads_store ==
    /\ pc = "for" /\ route = "multi"
    /\ round_no < num_predictions
    /\ round_no' = round_no + 1
    /\ best_prediction_this_round' = NoPrediction
    /\ max_confidence_this_round' = 0
    /\ attempts' = 0
    /\ round_confidences' = <<>>
    /\ round_outcome' = "none"
    /\ pc' = "while"
    /\ io_log' = Append(io_log, IO("read"))
    /\ UNCHANGED <<request_vars, all_predictions, prediction_result, response,
                   generation_calls, exhausted_rounds>>
    /\ UNCHANGED store_vars

\* 'for _ in range(num_predictions):' enters a round
MultiStartRound ==
    /\ pc = "for" /\ route = "multi"
    /\ round_no < num_predictions
    /\ round_no' = round_no + 1
    /\ best_prediction_this_round' = NoPrediction
    /\ max_confidence_this_round' = 0
    /\ attempts' = 0
    /\ round_confidences' = <<>>
    /\ round_outcome' = "none"
    /\ pc' = "while"
    /\ UNCHANGED <<request_vars, all_predictions, prediction_result, response,
                   generation_calls, exhausted_rounds>>
    /\ UNCHANGED <<io_log, store_vars>>

\* one pass of the loop that also takes a candidate of equal confidence as
\* the best of the round
MultiAttempt_latest_best ==
    /\ pc = "while" /\ route = "multi"
    /\ WhileCondition
    /\ attempts' = attempts + 1
    /\ generation_calls' = generation_calls + 1
    /\ \E r \in engine_results :
          /\ prediction_result' = r
          /\ round_confidences' = Append(round_confidences, r.confidence)
          /\ IF r.confidence >= max_confidence_this_round
             THEN /\ max_confidence_this_round' = r.confidence
                  /\ best_prediction_this_round' = r
             ELSE UNCHANGED <<max_confidence_this_round, best_prediction_this_round>>
          /\ IF r.meets_confidence
             THEN /\ all_predictions' = Append(all_predictions, r)
                  /\ round_outcome' = "ACCEPTED"
                  /\ pc' = "for"
             ELSE /\ UNCHANGED <<all_predictions, round_outcome>>
                  /\ pc' = "while"
    /\ UNCHANGED <<request_vars, response, round_no, exhausted_rounds>>
    /\ UNCHANGED <<io_log, store_vars>>

\* one pass of 'while attempts < max_retries:' in which predict_numbers returns
MultiAttempt ==
    /\ pc = "while" /\ route = "multi"
    /\ WhileCondition
    /\ attempts' = attempts + 1
    /\ generation_calls' = generation_calls + 1
    /\ \E r \in engine_results :
          /\ prediction_result' = r
          /\ round_confidences' = Append(round_confidences, r.confidence)
          /\ IF r.confidence > max_confidence_this_round
             THEN /\ max_confidence_this_round' = r.confidence
                  /\ best_prediction_this_round' = r
             ELSE UNCHANGED <<max_confidence_this_round, best_prediction_this_round>>
          /\ IF r.meets_confidence
             THEN /\ all_predictions' = Append(all_predictions, r)
                  /\ round_outcome' = "ACCEPTED"
                  /\ pc' = "for"
             ELSE /\ UNCHANGED <<all_predictions, round_outcome>>
                  /\ pc' = "while"
    /\ UNCHANGED <<request_vars, response, round_no, exhausted_rounds>>
    /\ UNCHANGED <<io_log, store_vars>>

\* predict_numbers raises inside the loop: the handler's except clause
MultiAttemptRaises ==
    /\ pc = "while" /\ route = "multi"
    /\ WhileCondition
    /\ MethodRaises(historical_data, method)
    /\ attempts' = attempts + 1
    /\ generation_calls' = generation_calls + 1
    /\ response' = Response(500, <<>>, NoPrediction)
    /\ pc' = "done"
    /\ UNCHANGED <<request_vars, all_predictions, best_prediction_this_round,
                   max_confidence_this_round, prediction_result, round_no,
                   round_confidences, round_outcome, exhausted_rounds>>
    /\ UNCHANGED <<io_log, store_vars>>

\* the 'else:' of the while loop: the budget ran out without a break
MultiExhausted ==
    /\ pc = "while" /\ route = "multi"
    /\ ~WhileCondition
    /\ all_predictions' = IF ~IsNone(best_prediction_this_round)
                          THEN Append(all_predictions, best_prediction_this_round)
                          ELSE all_predictions
    /\ round_outcome' = "EXHAUSTED"
    /\ exhausted_rounds' = exhausted_rounds + 1
    /\ pc' = "for"
    /\ UNCHANGED <<request_vars, attempts, best_prediction_this_round,
                   max_confidence_this_round, prediction_result, response, round_no,
                   generation_calls, round_confidences>>
    /\ UNCHANGED <<io_log, store_vars>>

\* after the loop: the 400 answer for an empty list, else the predictions
\* are saved and returned with success
MultiRespond ==
    /\ pc = "for" /\ route = "multi"
    /\ ~(round_no < num_predictions)
    /\ response' = IF NoPredictions(all_predictions)
                   THEN Response(400, <<>>, NoPrediction)
                   ELSE Response(200, all_predictions, NoPrediction)
    /\ io_log' = IF NoPredictions(all_predictions)
                 THEN io_log ELSE Append(io_log, IO("save_prediction"))
    /\ pc' = "done"
    /\ UNCHANGED <<request_vars, all_predictions, attempts, best_prediction_this_round,
                   max_confidence_this_round, prediction_result, round_no,
                   generation_calls, round_confidences, round_outcome, exhausted_rounds>>
    /\ UNCHANGED store_vars

\* ---------------------------------- routes/lottery.py: the single route
LP_StoreShapes == {<<0, "rotating">>, <<4, "rotating">>, <<8, "rotating">>}

LP_CrawlShapes == {<<0, "rotating">>, <<1, "rotating">>}

RECURSIVE Flatten(_)
\* main_number_counter.update(...) over the predictions in order: all
\* predicted numbers in the order they are counted
Flatten(predictions) ==
    IF predictions = <<>> THEN <<>>
    ELSE Head(predictions).predicted_numbers \o Flatten(Tail(predictions))

\* the specials counted by special_number_counter
CountedSpecials(predictions) ==
    LET with == SelectSeq(predictions, LAMBDA q : q.predicted_special # None)
    IN [i \in DOMAIN with |-> with[i].predicted_special]

\* variant: the numbers_to_pick least frequent numbers
Aggregate_least_frequent(predictions, confidence) ==
    LET main_number_counter == StableDesc(CounterOf(Flatten(predictions)))
        special_number_counter == CounterOf(CountedSpecials(predictions))
        k == Min2(numbers_to_pick, Len(main_number_counter))
        worst_main_numbers ==
            {main_number_counter[Len(main_number_counter) - k + p][1] : p \in 1..k}
        best_special == IF special_number_counter # <<>>
                        THEN MostCommon(special_number_counter, 1)[1]
                        ELSE None
    IN LP_Candidate(SortedSeq(worst_main_numbers), best_special, "top-frequency", confidence)

\* best_prediction of predict_numbers_from_sheets (lines 146-167)
Aggregate(predictions, confidence) ==
    LET main_number_counter == CounterOf(Flatten(predictions))
        special_number_counter == CounterOf(CountedSpecials(predictions))
        best_main_numbers == MostCommon(main_number_counter, numbers_to_pick)
        best_special == IF special_number_counter # <<>>
                        THEN MostCommon(special_number_counter, 1)[1]
                        ELSE None
    IN LP_Candidate(SortedSeq(SeqToSet(best_main_numbers)), best_special,
                    "top-frequency", confidence)

\* sheets_manager.read_historical_data
SingleReadStore ==
    /\ pc = "start" /\ route = "single"
    /\ \E sh \in LP_StoreShapes : historical_data' = LP_Dataset(sh[1], sh[2])
    /\ engine_results' = LP_predict_numbers(historical_data', method)
    /\ io_log' = Append(io_log, IO("read"))
    /\ pc' = IF historical_data' = <<>> THEN "crawl" ELSE "outer"
    /\ UNCHANGED <<route, game_type, method, min_confidence, num_predictions, max_retries,
                   loop_vars, prediction_result, generation_calls>>
    /\ UNCHANGED store_vars

\* crawl_lottery_data for an empty store: its data is used, or the function
\* returns (None, []) and predict_lottery answers 400
SingleCrawl ==
    /\ pc = "crawl" /\ route = "single"
    /\ \E sh \in LP_CrawlShapes :
          LET crawled_data == LP_Dataset(sh[1], sh[2])
          IN IF crawled_data # <<>>
             THEN /\ historical_data' = crawled_data
                  /\ engine_results' = LP_predict_numbers(crawled_data, method)
                  /\ io_log' = io_log \o <<IO("crawl"), IO("write")>>
                  /\ pc' = "outer"
                  /\ UNCHANGED response
             ELSE /\ response' = Response(400, <<>>, NoPrediction)
                  /\ io_log' = Append(io_log, IO("crawl"))
                  /\ pc' = "done"
                  /\ UNCHANGED <<historical_data, engine_results>>
    /\ UNCHANGED <<route, game_type, method, min_confidence, num_predictions, max_retries,
                   all_predictions, attempts, best_prediction_this_round,
                   max_confidence_this_round, prediction_result, round_no,
                   generation_calls, round_confidences, round_outcome, exhausted_rounds>>
    /\ UNCHANGED store_vars

\* 'while len(predictions) < total_predictions:' enters a round
SingleStartRound ==
    /\ pc = "outer" /\ route = "single"
    /\ Len(all_predictions) < num_predictions
    /\ round_no' = round_no + 1
    /\ attempts' = 0
    /\ max_confidence_this_round' = 0
    /\ round_confidences' = <<>>
    /\ round_outcome' = "none"
    /\ pc' = "while"
    /\ UNCHANGED <<request_vars, all_predictions, best_prediction_this_round,
                   prediction_result, response, generation_calls, exhausted_rounds>>
    /\ UNCHANGED <<io_log, store_vars>>

\* one pass of 'while attempts < max_attempts:'
SingleAttempt ==
    /\ pc = "while" /\ route = "single"
    /\ attempts < max_attempts
    /\ attempts' = attempts + 1
    /\ generation_calls' = generation_calls + 1
    /\ \E r \in engine_results :
          /\ prediction_result' = r
          /\ round_confidences' = Append(round_confidences, r.confidence)
          /\ max_confidence_this_round' =
                IF max_confidence_this_round < r.confidence
                THEN r.confidence ELSE max_confidence_this_round
          /\ IF r.confidence >= min_confidence
             THEN /\ all_predictions' = Append(all_predictions, r)
                  /\ pc' = "after_while"
             ELSE /\ UNCHANGED all_predictions
                  /\ pc' = "while"
    /\ UNCHANGED <<request_vars, best_prediction_this_round, response, round_no,
                   round_outcome, exhausted_rounds>>
    /\ UNCHANGED <<io_log, store_vars>>

\* the while condition fails: the loop is left without a break
SingleLoopEnds ==
    /\ pc = "while" /\ route = "single"
    /\ ~(attempts < max_attempts)
    /\ pc' = "after_while"
    /\ UNCHANGED <<request_vars, loop_vars, prediction_result, generation_calls>>
    /\ UNCHANGED <<io_log, store_vars>>

\* 'if attempts == max_attempts: return None, []', which predict_lottery
\* answers with 400; else the next round
SingleCheck ==
    /\ pc = "after_while" /\ route = "single"
    /\ IF attempts = max_attempts
       THEN /\ response' = Response(400, <<>>, NoPrediction)
            /\ round_outcome' = "EXHAUSTED"
            /\ pc' = "done"
       ELSE /\ round_outcome' = "ACCEPTED"
            /\ pc' = "outer"
            /\ UNCHANGED response
    /\ exhausted_rounds' = IF RoundMet THEN exhausted_rounds ELSE exhausted_rounds + 1
    /\ UNCHANGED <<request_vars, all_predictions, attempts, best_prediction_this_round,
                   max_confidence_this_round, prediction_result, round_no,
                   generation_calls, round_confidences>>
    /\ UNCHANGED <<io_log, store_vars>>

\* the batch is complete: the aggregate is built, saved and returned, and
\* predict_lottery reads the store for its row count and answers 200 with
\* the aggregate and the batch
SingleAggregate ==
    /\ pc = "outer" /\ route = "single"
    /\ ~(Len(all_predictions) < num_predictions)
    /\ response' = Response(200, all_predictions, Aggregate(all_predictions, min_confidence))
    /\ io_log' = io_log \o <<IO("save_prediction"), IO("read")>>
    /\ pc' = "done"
    /\ UNCHANGED <<request_vars, all_predictions, attempts, best_prediction_this_round,
                   max_confidence_this_round, prediction_result, round_no,
                   generation_calls, round_confidences, round_outcome, exhausted_rounds>>
    /\ UNCHANGED store_vars

\* an upper bound of the steps a handler has left: a round takes its entry,
\* at most max_retries attempts and its exit (two steps on the single route)
StepsLeft ==
    LET per_round == max_retries + (IF route = "multi" THEN 2 ELSE 3)
        rounds_left == (num_predictions - round_no) * per_round
    IN CASE pc = "start" -> 4 + num_predictions * per_round
         [] pc = "load" -> 3 + num_predictions * per_round
         [] pc = "crawl" -> 2 + num_predictions * per_round
         [] pc \in {"for", "outer"} -> 1 + rounds_left
         [] pc = "while" ->
               1 + rounds_left + (max_retries - attempts)
                 + (IF route = "multi" THEN 1 ELSE 2)
         [] pc = "after_while" -> 2 + rounds_left
         [] OTHER -> 0

NextRoute ==
    \/ MultiValidate \/ MultiReadStore \/ MultiCrawl \/ MultiStartRound
    \/ MultiAttempt \/ MultiAttemptRaises \/ MultiExhausted \/ MultiRespond
    \/ SingleReadStore \/ SingleCrawl \/ SingleStartRound \/ SingleAttempt
    \/ SingleLoopEnds \/ SingleCheck \/ SingleAggregate

Spec == InitRoute /\ [][NextRoute]_vars

\* -------------------------------------------------------- the store writes
\* bounds of the store model: period numbers, length of one 'data' list,
\* store writes in one behaviour
MaxPeriod == 2
MaxData == 2
MaxWrites == 2

\* a period as Python holds it: the text of a number, the number itself,
\* or '' (also what .get("period", "") gives when the key is missing)
StrPeriod(n) == <<"str", n>>
IntPeriod(n) == <<"int", n>>
EmptyPeriod == <<"empty", 0>>

Periods == {EmptyPeriod} \cup {StrPeriod(n) : n \in 1..MaxPeriod}
                         \cup {IntPeriod(n) : n \in 1..MaxPeriod}

\* Python's str() of a period
str(period) == IF period[1] = "int" THEN StrPeriod(period[2]) ELSE period

\* a draw handed to a store write; numbers_complete is len(numbers) >= 6
Entries == [period : Periods, numbers_complete : BOOLEAN]

\* the lists a store write can be given
WriteLists == UNION {[1..n -> Entries] : n \in 0..MaxData}

\* MultiGoogleSheetsManager.save_lottery_data with every item appended
save_lottery_data_no_dedup(rows, items) ==
    rows \o [i \in DOMAIN items |-> [period |-> items[i].period,
                                     numbers_complete |-> items[i].numbers_complete]]

\* MultiGoogleSheetsManager.save_lottery_data: the rows of the worksheet after
\* the call; existing_periods is read once, before the loop over the items
save_lottery_data(rows, items) ==
    LET existing_periods == {rows[i].period : i \in DOMAIN rows}
        Keep(item) == item.period \notin existing_periods
        kept == SelectSeq(items, Keep)
        new_rows == [i \in DOMAIN kept |-> [period |-> kept[i].period,
                                            numbers_complete |-> kept[i].numbers_complete]]
    IN rows \o new_rows

\* GoogleSheetsManager.save_historical_data: the rows of the worksheet after
\* the call
save_historical_data(rows, items) ==
    LET existing_periods == {str(rows[i].period) : i \in DOMAIN rows}
        Keep(entry) == /\ str(entry.period) # EmptyPeriod
                       /\ str(entry.period) \notin existing_periods
                       /\ entry.numbers_complete
        kept == SelectSeq(items, Keep)
        new_rows == [i \in DOMAIN kept |-> [period |-> str(kept[i].period),
                                            numbers_complete |-> kept[i].numbers_complete]]
    IN rows \o new_rows

\* a sheets manager over the empty worksheet of one game
InitStore ==
    /\ pc = "store"
    /\ route = "none"
    /\ game_type = "lotto649"
    /\ method = "hybrid"
    /\ min_confidence = 0
    /\ historical_data = <<>>
    /\ engine_results = {}
    /\ num_predictions = 1
    /\ max_retries = 1
    /\ all_predictions = <<>>
    /\ attempts = 0
    /\ best_prediction_this_round = NoPrediction
    /\ max_confidence_this_round = 0
    /\ prediction_result = NoPrediction
    /\ response = NoResponse
    /\ round_no = 0
    /\ generation_calls = 0
    /\ round_confidences = <<>>
    /\ round_outcome = "none"
    /\ exhausted_rounds = 0
    /\ io_log = <<>>
    /\ manager \in {"single", "multi"}
    /\ worksheet = <<>>
    /\ data = <<>>
    /\ worksheet_before = <<>>
    /\ all_records = <<>>
    /\ periods = 0
    /\ scorer_weights = <<>>
    /\ recent_counts = <<>>
    /\ writers = <<>>

\* a call of MultiGoogleSheetsManager.save_lottery_data
MultiStoreWrite ==
    /\ pc = "store"
    /\ manager = "multi"
    /\ Len(io_log) < MaxWrites
    /\ \E items \in WriteLists :
          /\ data' = items
          /\ worksheet' = save_lottery_data(worksheet, items)
    /\ worksheet_before' = worksheet
    /\ io_log' = Append(io_log, IO("write"))
    /\ UNCHANGED <<pc, request_vars, loop_vars, prediction_result, generation_calls, manager,
                   all_records, periods, scorer_weights,
                   recent_counts, writers>>

\* a call of GoogleSheetsManager.save_historical_data
SingleStoreWrite ==
    /\ pc = "store"
    /\ manager = "single"
    /\ Len(io_log) < MaxWrites
    /\ \E items \in WriteLists :
          /\ data' = items
          /\ worksheet' = save_historical_data(worksheet, items)
    /\ worksheet_before' = worksheet
    /\ io_log' = Append(io_log, IO("write"))
    /\ UNCHANGED <<pc, request_vars, loop_vars, prediction_result, generation_calls, manager,
                   all_records, periods, scorer_weights,
                   recent_counts, writers>>

NextStore == MultiStoreWrite \/ SingleStoreWrite

SpecStore == InitStore /\ [][NextStore]_vars

\* ------------------------------------------------ concurrent store writes
\* bound: length of the 'data' list of a concurrent store write
MaxConcurrentData == 1

\* the store write calls in progress at the same time
Writers == {1, 2}

\* the lists a concurrent store write can be given
ConcurrentWriteLists == UNION {[1..n -> Entries] : n \in 0..MaxConcurrentData}

\* the worksheet the concurrent calls find: empty, or one stored draw
StoredSheets ==
    {<<>>} \cup {<<[period |-> StrPeriod(n), numbers_complete |-> TRUE]>> : n \in 1..MaxPeriod}

\* the rows a store write builds from the records it has read
new_rows(existing_data, items) ==
    LET after == IF manager = "single" THEN save_historical_data(existing_data, items)
                                       ELSE save_lottery_data(existing_data, items)
    IN SubSeq(after, Len(existing_data) + 1, Len(after))

\* two store write calls of one sheets manager, neither has read the worksheet
InitConcurrent ==
    /\ pc = "concurrent"
    /\ route = "none"
    /\ game_type = "lotto649"
    /\ method = "hybrid"
    /\ min_confidence = 0
    /\ historical_data = <<>>
    /\ engine_results = {}
    /\ num_predictions = 1
    /\ max_retries = 1
    /\ all_predictions = <<>>
    /\ attempts = 0
    /\ best_prediction_this_round = NoPrediction
    /\ max_confidence_this_round = 0
    /\ prediction_result = NoPrediction
    /\ response = NoResponse
    /\ round_no = 0
    /\ generation_calls = 0
    /\ round_confidences = <<>>
    /\ round_outcome = "none"
    /\ exhausted_rounds = 0
    /\ io_log = <<>>
    /\ manager \in {"single", "multi"}
    /\ worksheet \in StoredSheets
    /\ worksheet_before = worksheet
    /\ data = <<>>
    /\ all_records = <<>>
    /\ periods = 0
    /\ scorer_weights = <<>>
    /\ recent_counts = <<>>
    /\ writers \in [Writers -> [pc : {"read"}, data : ConcurrentWriteLists,
                                existing_data : {<<>>}]]

\* 'existing_data = worksheet.get_all_records()' of save_lottery_data
MultiWriterReads(w) ==
    /\ pc = "concurrent" /\ manager = "multi"
    /\ writers[w].pc = "read"
    /\ writers' = [writers EXCEPT ![w].existing_data = worksheet, ![w].pc = "append"]
    /\ io_log' = Append(io_log, IO("read"))
    /\ UNCHANGED <<pc, request_vars, loop_vars, prediction_result, generation_calls, manager,
                   worksheet, data, worksheet_before, all_records, periods, scorer_weights,
                   recent_counts>>

\* 'if new_rows: worksheet.append_rows(new_rows)' of save_lottery_data
MultiWriterAppends(w) ==
    /\ pc = "concurrent" /\ manager = "multi"
    /\ writers[w].pc = "append"
    /\ worksheet' = worksheet \o new_rows(writers[w].existing_data, writers[w].data)
    /\ writers' = [writers EXCEPT ![w].pc = "done"]
    /\ io_log' = Append(io_log, IO("write"))
    /\ UNCHANGED <<pc, request_vars, loop_vars, prediction_result, generation_calls, manager,
                   data, worksheet_before, all_records, periods, scorer_weights,
                   recent_counts>>

\* 'existing_records = worksheet.get_all_records()' of save_historical_data
SingleWriterReads(w) ==
    /\ pc = "concurrent" /\ manager = "single"
    /\ writers[w].pc = "read"
    /\ writers' = [writers EXCEPT ![w].existing_data = worksheet, ![w].pc = "append"]
    /\ io_log' = Append(io_log, IO("read"))
    /\ UNCHANGED <<pc, request_vars, loop_vars, prediction_result, generation_calls, manager,
                   worksheet, data, worksheet_before, all_records, periods, scorer_weights,
                   recent_counts>>

\* 'if new_rows: worksheet.append_rows(new_rows)' of save_historical_data
SingleWriterAppends(w) ==
    /\ pc = "concurrent" /\ manager = "single"
    /\ writers[w].pc = "append"
    /\ worksheet' = worksheet \o new_rows(writers[w].existing_data, writers[w].data)
    /\ writers' = [writers EXCEPT ![w].pc = "done"]
    /\ io_log' = Append(io_log, IO("write"))
    /\ UNCHANGED <<pc, request_vars, loop_vars, prediction_result, generation_calls, manager,
                   data, worksheet_before, all_records, periods, scorer_weights,
                   recent_counts>>

NextConcurrent ==
    \E w \in Writers :
        \/ MultiWriterReads(w) \/ MultiWriterAppends(w)
        \/ SingleWriterReads(w) \/ SingleWriterAppends(w)

SpecConcurrent == InitConcurrent /\ [][NextConcurrent]_vars

\* --------------------------------------------------------- the store reads
\* bound of the store reads: records of the worksheet
MaxRecords == 2

\* a cell of a record of get_all_records(): a number, '' or another text
IntCell(n) == [kind |-> "int", value |-> n]
BlankCell == [kind |-> "blank", value |-> 0]
TextCell == [kind |-> "text", value |-> 0]

\* Python's truth value of a cell
CellTruthy(cell) == cell.kind = "text" \/ (cell.kind = "int" /\ cell.value # 0)

\* the number cells: blank, not a number, the ends of the range and the
\* first number above it
NumberCells == {BlankCell, TextCell, IntCell(1), IntCell(NumHi), IntCell(NumHi + 1)}

\* the records of a worksheet: record i has period i or no period
RecordLists ==
    UNION {{[i \in 1..n |-> [period |-> IF f[i].has_period THEN IntCell(i) ELSE BlankCell,
                             numbers |-> f[i].numbers]] :
               f \in [1..n -> [has_period : BOOLEAN,
                               numbers : [1..PickCount -> NumberCells]]]} :
           n \in 0..MaxRecords}

\* Python's sorted() of a list of integers
RECURSIVE sorted(_)
sorted(s) ==
    IF s = <<>> THEN <<>>
    ELSE LET i == CHOOSE k \in DOMAIN s : \A j \in DOMAIN s : s[k] <= s[j]
         IN <<s[i]>> \o sorted(SubSeq(s, 1, i - 1) \o SubSeq(s, i + 1, Len(s)))

\* str(record.get(...)) of a period cell
PeriodOf(record) ==
    IF record.period.kind = "int" THEN StrPeriod(record.period.value) ELSE EmptyPeriod

\* records[-periods:] of Python for periods >= 0: the whole list for 0
LastPeriods(records, n) ==
    IF n = 0 \/ n >= Len(records) THEN records
    ELSE SubSeq(records, Len(records) - n + 1, Len(records))

\* the draws of the records for which Usable holds, in order
UsableDraws(records, Usable(_), DrawOfRecord(_)) ==
    LET kept == SelectSeq(records, Usable)
    IN [i \in DOMAIN kept |-> DrawOfRecord(kept[i])]

\* MultiGoogleSheetsManager.get_lottery_data: the last 'periods' records, each
\* with the number cells that int() accepts; a record without one is left out
get_lottery_data(records, n) ==
    LET Numbers(record) ==
            LET cells == SelectSeq(record.numbers, LAMBDA c : c.kind = "int")
            IN [i \in DOMAIN cells |-> cells[i].value]
        Usable(record) == Numbers(record) # <<>>
        DrawOfRecord(record) == [period |-> PeriodOf(record), numbers |-> Numbers(record)]
    IN UsableDraws(LastPeriods(records, n), Usable, DrawOfRecord)

\* GoogleSheetsManager.read_historical_data: the records with a period whose
\* number cells are all numbers, numbers_to_pick of them within the range
read_historical_data(records) ==
    LET Valid(record) == {i \in DOMAIN record.numbers :
                             /\ record.numbers[i].kind = "int"
                             /\ record.numbers[i].value \in LP_numbers}
        Usable(record) ==
            /\ CellTruthy(record.period) /\ CellTruthy(record.numbers[1])
            /\ \A i \in DOMAIN record.numbers : record.numbers[i].kind = "int"
            /\ Cardinality(Valid(record)) = numbers_to_pick
        DrawOfRecord(record) ==
            [period |-> PeriodOf(record),
             numbers |-> sorted([i \in DOMAIN record.numbers |-> record.numbers[i].value])]
    IN UsableDraws(records, Usable, DrawOfRecord)

\* a store read is about to be made
InitRead ==
    /\ pc = "read"
    /\ route = "none"
    /\ game_type = "lotto649"
    /\ method = "hybrid"
    /\ min_confidence = 0
    /\ historical_data = <<>>
    /\ engine_results = {}
    /\ num_predictions = 1
    /\ max_retries = 1
    /\ all_predictions = <<>>
    /\ attempts = 0
    /\ best_prediction_this_round = NoPrediction
    /\ max_confidence_this_round = 0
    /\ prediction_result = NoPrediction
    /\ response = NoResponse
    /\ round_no = 0
    /\ generation_calls = 0
    /\ round_confidences = <<>>
    /\ round_outcome = "none"
    /\ exhausted_rounds = 0
    /\ io_log = <<>>
    /\ manager \in {"single", "multi"}
    /\ worksheet = <<>>
    /\ data = <<>>
    /\ worksheet_before = <<>>
    /\ all_records \in RecordLists
    /\ periods \in 0..(MaxRecords + 1)
    /\ scorer_weights = <<>>
    /\ recent_counts = <<>>
    /\ writers = <<>>

\* sheets_manager.get_lottery_data(sheet_name, game_type, periods)
MultiGetLotteryData ==
    /\ pc = "read" /\ manager = "multi"
    /\ historical_data' = get_lottery_data(all_records, periods)
    /\ io_log' = Append(io_log, IO("read"))
    /\ pc' = "read_done"
    /\ UNCHANGED <<route, game_type, method, min_confidence, num_predictions, max_retries,
                   engine_results, loop_vars, prediction_result, generation_calls, store_vars>>

\* sheets_manager.read_historical_data(sheet_name)
SingleReadHistoricalData ==
    /\ pc = "read" /\ manager = "single"
    /\ historical_data' = read_historical_data(all_records)
    /\ io_log' = Append(io_log, IO("read"))
    /\ pc' = "truncate"
    /\ UNCHANGED <<route, game_type, method, min_confidence, num_predictions, max_retries,
                   engine_results, loop_vars, prediction_result, generation_calls, store_vars>>

\* 'if len(historical_data) > periods: historical_data = historical_data[-periods:]'
SingleTruncate ==
    /\ pc = "truncate" /\ manager = "single"
    /\ historical_data' = IF Len(historical_data) > periods
                          THEN LastPeriods(historical_data, periods)
                          ELSE historical_data
    /\ pc' = "read_done"
    /\ UNCHANGED <<route, game_type, method, min_confidence, num_predictions, max_retries,
                   engine_results, loop_vars, prediction_result, generation_calls, store_vars,
                   io_log>>

NextRead == MultiGetLotteryData \/ SingleReadHistoricalData \/ SingleTruncate

SpecRead == InitRead /\ [][NextRead]_vars

\* ---------------------------------------------- the frequency scorers
\* bounds of the scorer runs: top of the number range of the multi engine,
\* draws of the dataset
ScorerHi == 20
MaxDraws == 31

\* the greatest r of lo..hi with r * r <= n
RECURSIVE ISqrt(_, _, _)
ISqrt(n, lo, hi) ==
    IF lo >= hi THEN lo
    ELSE LET mid == (lo + hi + 1) \div 2
         IN IF mid * mid <= n THEN ISqrt(n, mid, hi) ELSE ISqrt(n, lo, mid - 1)

\* the profile the multi scorer runs on: lotto649 with the range 1..ScorerHi
ScorerConfig == [game_configs.lotto649 EXCEPT !.number_range = <<1, ScorerHi>>]

\* number_weights of _frequency_analysis with the value of every factor, as
\* a pair <<low, high>> of hundredths of 1 / (expected_freq + 1) that the
\* weight lies between (low = high where the weight is a fraction):
\* (freq + 1), times 2 when the intervals have zero deviation, times
\* 1 + (avg_interval / (total_draws / range)) / std_interval otherwise.  With
\* k intervals of sum S and sum of squares Q, avg = S / k and
\* std = sqrt(k * Q - S * S) / k, so the factor is
\* 1 + S * range / (total_draws * sqrt(k * Q - S * S)).  The root is looked
\* for below 46340, the root of the greatest 32-bit integer.
number_weights_valued(config, draws) ==
    LET all == AllNumbers(draws)
        size == config.number_range[2] - config.number_range[1] + 1
        total_draws == Len(draws)
    IN [num \in NumberRange(config) |->
          LET iv == number_intervals(draws, num)
              freq == CountIn(all, num)
              k == Len(iv)
              S == SumSeq(iv)
              Q == SumSeq([q \in DOMAIN iv |-> iv[q] * iv[q]])
              D == k * Q - S * S
              root_low == ISqrt(10000 * D, 0, Min2(100 * k * MaxDraws, 46340))
              root_high == IF root_low * root_low = 10000 * D THEN root_low
                           ELSE root_low + 1
              part == (freq + 1) * S * size * 10000
          IN IF iv = <<>> THEN <<(freq + 1) * 100, (freq + 1) * 100>>
             ELSE IF D = 0 THEN <<(freq + 1) * 200, (freq + 1) * 200>>
             ELSE <<(freq + 1) * 100 + part \div (total_draws * root_high),
                    (freq + 1) * 100 + part \div (total_draws * root_low) + 1>>]

\* a dataset of len draws for a scorer over 1..hi: number 1 in every draw but
\* the first 'missing' ones, number 2 in the draws of 'cold', and the numbers
\* from 3 in turn in the other places
ScorerDataset(hi, len, missing, cold) ==
    [i \in 1..len |->
        [numbers |-> <<(IF i > missing THEN 1 ELSE 3 + ((2 * i) % (hi - 2))),
                       (IF i \in cold THEN 2 ELSE 3 + ((2 * i + 1) % (hi - 2)))>>,
         special_number |-> 1]]

\* the draws number 2 is in: none, or three draws from the first one on
ColdDraws(len) ==
    {{}} \cup {{1, 1 + d1, 1 + d1 + d2} : d1 \in 1..(len \div 2), d2 \in (len \div 2 - 2)..(len \div 2)}

InitScorer ==
    /\ pc = "score"
    /\ route \in {"multi", "single"}
    /\ game_type = "lotto649"
    /\ method = "frequency"
    /\ min_confidence = 0
    /\ \E len \in {MaxDraws - 11, MaxDraws}, missing \in 0..(MaxDraws \div 10) :
          \E cold \in ColdDraws(len) :
             historical_data =
                 ScorerDataset(IF route = "multi" THEN ScorerHi ELSE NumHi, len, missing, cold)
    /\ engine_results = {}
    /\ num_predictions = 1
    /\ max_retries = 1
    /\ all_predictions = <<>>
    /\ attempts = 0
    /\ best_prediction_this_round = NoPrediction
    /\ max_confidence_this_round = 0
    /\ prediction_result = NoPrediction
    /\ response = NoResponse
    /\ round_no = 0
    /\ generation_calls = 0
    /\ round_confidences = <<>>
    /\ round_outcome = "none"
    /\ exhausted_rounds = 0
    /\ io_log = <<>>
    /\ NoStore

\* the number weights of MultiLotteryPredictionAlgorithm._frequency_analysis
MultiFrequencyWeights ==
    /\ pc = "score" /\ route = "multi"
    /\ scorer_weights' = number_weights_valued(ScorerConfig, historical_data)
    /\ pc' = "scored"
    /\ UNCHANGED <<request_vars, loop_vars, prediction_result, generation_calls, io_log,
                   manager, worksheet, data, worksheet_before, all_records, periods,
                   recent_counts, writers>>

\* the number weights of LotteryPredictor._frequency_based_prediction
SingleFrequencyWeights ==
    /\ pc = "score" /\ route = "single"
    /\ scorer_weights' = [num \in LP_numbers |->
                             <<weighted_numbers(historical_data)[num],
                               weighted_numbers(historical_data)[num]>>]
    /\ pc' = "scored"
    /\ UNCHANGED <<request_vars, loop_vars, prediction_result, generation_calls, io_log,
                   manager, worksheet, data, worksheet_before, all_records, periods,
                   recent_counts, writers>>

NextScorer == MultiFrequencyWeights \/ SingleFrequencyWeights

SpecScorer == InitScorer /\ [][NextScorer]_vars

\* ------------------------------------- the enhanced frequency scorer
\* bound: draws of the datasets of the enhanced scorer
MaxWindowDraws == 45

\* recent_period of _enhanced_frequency_analysis
recent_period(total_draws) == Min2(10, total_draws \div 4)

\* recent_freq of _enhanced_frequency_analysis: the occurrences of every
\* number in historical_data[-recent_period:]
enhanced_recent_freq(config, draws) ==
    LET recent == AllNumbers(LastPeriods(draws, recent_period(Len(draws))))
    IN [num \in NumberRange(config) |-> CountIn(recent, num)]

InitEnhanced ==
    /\ pc = "window"
    /\ route = "multi"
    /\ game_type \in {"lotto649", "stars3"}
    /\ method = "frequency"
    /\ min_confidence = 0
    /\ \E len \in 0..MaxWindowDraws, kind \in {"rotating", "constant"} :
          historical_data = Dataset(get_game_config(game_type), len, kind)
    /\ engine_results = {}
    /\ num_predictions = 1
    /\ max_retries = 1
    /\ all_predictions = <<>>
    /\ attempts = 0
    /\ best_prediction_this_round = NoPrediction
    /\ max_confidence_this_round = 0
    /\ prediction_result = NoPrediction
    /\ response = NoResponse
    /\ round_no = 0
    /\ generation_calls = 0
    /\ round_confidences = <<>>
    /\ round_outcome = "none"
    /\ exhausted_rounds = 0
    /\ io_log = <<>>
    /\ NoStore

\* _enhanced_frequency_analysis up to the count of the recent occurrences
EnhancedRecentFreq ==
    /\ pc = "window"
    /\ recent_counts' = enhanced_recent_freq(get_game_config(game_type), historical_data)
    /\ pc' = "windowed"
    /\ UNCHANGED <<request_vars, loop_vars, prediction_result, generation_calls, io_log,
                   manager, worksheet, data, worksheet_before, all_records, periods,
                   scorer_weights, writers>>

NextEnhanced == EnhancedRecentFreq

SpecEnhanced == InitEnhanced /\ [][NextEnhanced]_vars

\* --------------------------------------------- the aggregate of a batch
\* bound: candidates of an accepted batch
MaxBatch == 3

\* the candidates a round of predict_numbers_from_sheets can accept
Accepted(draws, chosen_method, threshold) ==
    {r \in LP_predict_numbers(draws, chosen_method) : r.confidence >= threshold}

InitAggregate ==
    /\ pc = "batch"
    /\ route = "single"
    /\ game_type = "lotto649"
    /\ method = "frequency"
    /\ min_confidence = 65000
    /\ historical_data = LP_Dataset(4, "rotating")
    /\ engine_results = Accepted(historical_data, method, min_confidence)
    /\ num_predictions \in 1..MaxBatch
    /\ all_predictions \in [1..num_predictions -> engine_results]
    /\ max_retries = 1
    /\ attempts = 0
    /\ best_prediction_this_round = NoPrediction
    /\ max_confidence_this_round = 0
    /\ prediction_result = NoPrediction
    /\ response = NoResponse
    /\ round_no = num_predictions
    /\ generation_calls = num_predictions
    /\ round_confidences = <<>>
    /\ round_outcome = "ACCEPTED"
    /\ exhausted_rounds = 0
    /\ io_log = <<>>
    /\ NoStore

\* lines 146-171 of predict_numbers_from_sheets on a complete batch
BuildAggregate ==
    /\ pc = "batch"
    /\ response' = Response(200, all_predictions, Aggregate(all_predictions, min_confidence))
    /\ io_log' = Append(io_log, IO("save_prediction"))
    /\ pc' = "aggregated"
    /\ UNCHANGED <<request_vars, all_predictions, attempts, best_prediction_this_round,
                   max_confidence_this_round, prediction_result, round_no,
                   generation_calls, round_confidences, round_outcome, exhausted_rounds,
                   store_vars>>

NextAggregate == BuildAggregate

SpecAggregate == InitAggregate /\ [][NextAggregate]_vars

\* ------------------------------------------------------------ properties
\* C1: a request with num_predictions >= 1 in which some round ended with no
\* attempt reaching min_confidence answers with a failure that carries no
\* batch and no aggregate.
C1_AllOrNothing ==
    (pc = "done" /\ num_predictions >= 1 /\ exhausted_rounds >= 1)
        => /\ response.status # 200
           /\ response.predictions = <<>>
           /\ IsNone(response.best_prediction)

\* C2: a round that has ended is ACCEPTED exactly when one of its attempts
\* reached min_confidence (the last permitted attempt included), and the
\* candidate it accepted is the first one that did.
C2_AcceptedIffMet ==
    round_outcome # "none"
        => /\ (round_outcome = "ACCEPTED") <=> RoundMet
           /\ round_outcome = "ACCEPTED"
                => /\ \A k \in 1..(Len(round_confidences) - 1) :
                         round_confidences[k] < min_confidence
                   /\ all_predictions # <<>>
                   /\ all_predictions[Len(all_predictions)] = prediction_result
                   /\ prediction_result.confidence
                         = round_confidences[Len(round_confidences)]

\* C3: a request in which a round used up its attempts without acceptance
\* answers with a failure that carries that round's best-seen candidate,
\* the one of highest confidence among the round's attempts.
C3_FailureCarriesBest ==
    (pc = "done" /\ round_outcome = "EXHAUSTED" /\ ~RoundMet /\ round_confidences # <<>>)
        => /\ response.status # 200
           /\ ~IsNone(response.best_prediction)
           /\ \A k \in DOMAIN round_confidences :
                 round_confidences[k] <= response.best_prediction.confidence
           /\ \E k \in DOMAIN round_confidences :
                 round_confidences[k] = response.best_prediction.confidence

\* C4: every request terminates: each step of a handler lowers StepsLeft,
\* which is never negative.  No round calls the generator more often than
\* its budget allows (max_retries, which is max_attempts on the single
\* route), and a request makes at most budget x num_predictions calls.
C4_Terminates ==
    /\ [](/\ attempts <= max_retries
          /\ generation_calls <= max_retries * num_predictions
          /\ StepsLeft >= 0)
    /\ [][StepsLeft' < StepsLeft]_vars

C4_BudgetUsedUp ==
    /\ pc = "done" /\ num_predictions = MaxPredictions /\ max_retries >= 2
    /\ generation_calls = max_retries * num_predictions

\* C5: with max_retries = 0 and num_predictions >= 1 the multi route never
\* calls the generator, and its answer is the failure with no candidate.
C5_ZeroBudget ==
    (route = "multi" /\ max_retries = 0 /\ num_predictions >= 1)
        => /\ generation_calls = 0
           /\ round_outcome \in {"none", "EXHAUSTED"}
           /\ pc = "done" => /\ response.status = 400
                             /\ response.predictions = <<>>
                             /\ IsNone(response.best_prediction)

C5_ZeroBudgetAnswered ==
    /\ pc = "done" /\ route = "multi" /\ max_retries = 0 /\ num_predictions >= 1
    /\ round_outcome = "EXHAUSTED" /\ round_no = num_predictions

\* C6: a candidate returned by predict_numbers has number_count numbers of
\* the number range; those of a game that is not a digit game are pairwise
\* distinct.
C6_CandidateWellFormed ==
    pc = "engine_returned"
        => LET config == get_game_config(game_type)
               numbers == prediction_result.predicted_numbers
           IN /\ Len(numbers) = config.number_count
              /\ \A i \in DOMAIN numbers : numbers[i] \in NumberRange(config)
              /\ ~config.is_digit_game
                    => \A i, j \in DOMAIN numbers : i # j => numbers[i] # numbers[j]

C6_HybridOnUnvalidatedRows ==
    /\ pc = "engine_returned" /\ route = "multi" /\ method = "hybrid"
    /\ game_type = "bingobingo"
    /\ \E i \in DOMAIN historical_data :
          historical_data[i].numbers[1] \notin NumberRange(get_game_config(game_type))

\* C7: the special number of a candidate returned by predict_numbers for a
\* game with a special number is not one of the candidate's main numbers.
C7_SpecialNotInNumbers ==
    (pc = "engine_returned" /\ get_game_config(game_type).special_number)
        => \A i \in DOMAIN prediction_result.predicted_numbers :
              prediction_result.predicted_numbers[i] # prediction_result.predicted_special

\* C8: the confidence of a candidate returned by predict_numbers lies
\* within 0.1 and 0.95.
C8_ConfidenceWithinClamp ==
    pc = "engine_returned"
        => prediction_result.confidence >= 10000 /\ prediction_result.confidence <= 95000

C8_AtTheCeiling ==
    pc = "engine_returned" /\ prediction_result.confidence = 95000

\* C9: a request whose min_confidence lies above 0.95 and which asks for at
\* least one prediction is answered with a failure, whatever its budget.
C9_AboveCeilingFails ==
    (pc = "done" /\ min_confidence > 95000 /\ num_predictions >= 1)
        => response.status # 200

\* C10: the aggregate of a complete batch holds numbers_to_pick distinct
\* numbers of the batch; each of them occurs more often in the batch than
\* any number left out, or as often and earlier in batch order; its special
\* number is one of the batch's specials and none occurs more often.
C10_AggregateMostFrequent ==
    (pc = "done" /\ route = "single" /\ response.status = 200 /\ num_predictions >= 1)
        => LET batch == response.predictions
               flat == Flatten(batch)
               agg == response.best_prediction.predicted_numbers
               best_special == response.best_prediction.predicted_special
               specials == [i \in DOMAIN batch |-> batch[i].predicted_special]
               first(n) == CHOOSE i \in DOMAIN flat :
                              flat[i] = n /\ \A j \in 1..(i - 1) : flat[j] # n
           IN /\ Len(batch) = num_predictions
              /\ Len(agg) = numbers_to_pick
              /\ Cardinality(SeqToSet(agg)) = numbers_to_pick
              /\ SeqToSet(agg) \subseteq SeqToSet(flat)
              /\ \A n \in SeqToSet(agg) : \A m \in SeqToSet(flat) \ SeqToSet(agg) :
                    \/ CountIn(flat, n) > CountIn(flat, m)
                    \/ CountIn(flat, n) = CountIn(flat, m) /\ first(n) < first(m)
              /\ \E i \in DOMAIN specials : specials[i] = best_special
              /\ \A i \in DOMAIN specials :
                    CountIn(specials, specials[i]) <= CountIn(specials, best_special)

\* two accepted candidates without a common number: every count is 1 and
\* the order of the batch alone decides
C10_TieInBatch ==
    /\ pc = "done" /\ route = "single" /\ response.status = 200 /\ num_predictions = 2
    /\ SeqToSet(response.predictions[1].predicted_numbers)
          \cap SeqToSet(response.predictions[2].predicted_numbers) = {}
    /\ response.predictions[1].predicted_numbers[1]
          > response.predictions[2].predicted_numbers[1]

\* C11: a number that is among the main numbers of every candidate of an
\* accepted batch is among the numbers of the aggregate.
C11_CommonNumbersKept ==
    (pc = "done" /\ route = "single" /\ response.status = 200 /\ num_predictions >= 1)
        => \A x \in LP_numbers :
              (\A i \in DOMAIN response.predictions :
                    x \in SeqToSet(response.predictions[i].predicted_numbers))
                 => x \in SeqToSet(response.best_prediction.predicted_numbers)

\* two accepted candidates that share one number and differ in the other
C11_PartialOverlap ==
    /\ pc = "done" /\ route = "single" /\ response.status = 200 /\ num_predictions = 2
    /\ Cardinality(SeqToSet(response.predictions[1].predicted_numbers)
                     \cap SeqToSet(response.predictions[2].predicted_numbers)) = 1

\* C12: on an empty dataset predict_numbers for the profile with numbers and
\* special number of the full range (lotto649) returns, whatever the method,
\* number_count distinct numbers of the range and a special number of the
\* range that is none of them, tagged "random".
C12_EmptyDatasetRandom ==
    (pc = "engine_returned" /\ historical_data = <<>> /\ game_type = "lotto649")
        => LET config == get_game_config(game_type)
               numbers == prediction_result.predicted_numbers
           IN /\ Len(numbers) = config.number_count
              /\ Cardinality(SeqToSet(numbers)) = config.number_count
              /\ SeqToSet(numbers) \subseteq NumberRange(config)
              /\ prediction_result.predicted_special \in SpecialRange(config)
              /\ prediction_result.predicted_special \notin SeqToSet(numbers)
              /\ prediction_result.method = "random"

\* C13: no call of predict_numbers for a supported game and a recognized
\* method raises to its caller: every call returns a candidate.
C13_NeverRaises ==
    (game_type \in get_supported_games /\ method \in valid_methods)
        => pc # "engine_raised"

\* C14: a call whose dataset is too short for its method (fewer than 20
\* draws for neural_network, fewer than 10 for advanced_statistical and ml)
\* never ends in an error; with fewer than 10 draws its candidate is the
\* hybrid method's, and the random one on an empty dataset.
C14_DegradesToSimpler ==
    route = "multi"
        => /\ (method = "neural_network" /\ Len(historical_data) < 20)
                => pc # "engine_raised"
           /\ (method \in {"neural_network", "advanced_statistical", "ml"}
                  /\ Len(historical_data) < 10)
                => /\ pc # "engine_raised"
                   /\ pc = "engine_returned"
                        => prediction_result.method
                             = IF historical_data = <<>> THEN "random" ELSE "hybrid"

\* C15: on a non-empty dataset a call with an unrecognized method can return
\* exactly what the call with method hybrid can return on the same inputs,
\* and what it returns carries the hybrid tag.
C15_UnknownMethodIsHybrid ==
    (method \notin valid_methods /\ historical_data # <<>>)
        => /\ pc = "engine_call"
                => IF route = "multi"
                   THEN predict_numbers(game_type, historical_data, method, min_confidence)
                          = predict_numbers(game_type, historical_data, "hybrid",
                                            min_confidence)
                   ELSE LP_predict_numbers(historical_data, method)
                          = LP_predict_numbers(historical_data, "hybrid")
           /\ pc # "engine_raised"
           /\ pc = "engine_returned" => prediction_result.method = "hybrid"

C15_UnknownMethodReturned ==
    /\ pc = "engine_returned" /\ method \notin valid_methods /\ historical_data # <<>>
    /\ route = "multi" /\ Len(historical_data) >= 10

\* C16: a request to the multi route with an unsupported game or an
\* unrecognized method is answered with an error, and no store read, crawl,
\* store write or generation call is made for it.
C16_RejectedBeforeIO ==
    (route = "multi"
       /\ (game_type \notin get_supported_games \/ method \notin valid_methods))
        => /\ io_log = <<>>
           /\ generation_calls = 0
           /\ pc \in {"start", "done"}
           /\ pc = "done" => response.status = 400 /\ response.predictions = <<>>

C16_UnknownMethodRejected ==
    /\ pc = "done" /\ route = "multi" /\ response.status = 400
    /\ game_type \in get_supported_games /\ method \notin valid_methods

\* the periods the manager finds in the rows, as it compares them
StoredPeriods(rows) ==
    {(IF manager = "single" THEN str(rows[i].period) ELSE rows[i].period) : i \in DOMAIN rows}

\* the period of an item of 'data', as the manager compares it
KeyOf(item) == IF manager = "single" THEN str(item.period) ELSE item.period

C18_PeriodsUnique ==
    pc = "store" =>
        \A i, j \in DOMAIN worksheet :
            i # j => worksheet[i].period # worksheet[j].period

\* C19: during a predict request the crawler is called exactly when the read
\* of the store returned fewer than 5 draws, and data the store returned is
\* replaced by nothing but a crawl.
C19_CrawlIffFewerThanFive ==
    [][/\ (io_log' = Append(io_log, IO("read")))
             => (pc' = "crawl" <=> Len(historical_data') < 5)
       /\ (\E i \in DOMAIN io_log' : i > Len(io_log) /\ io_log'[i][1] = "crawl")
             <=> pc = "crawl"
       /\ (pc \notin {"start", "load", "crawl"}) => historical_data' = historical_data]_vars

\* C20: in every predict request each store read, crawl and store write is
\* made before the first generation attempt or after the last one: none is
\* made with a generation attempt before it and another one after it.
C20_NoIOBetweenAttempts ==
    route \in {"multi", "single"} =>
        \A i \in DOMAIN io_log :
            io_log[i][2] = 0 \/ io_log[i][2] = generation_calls

\* a request that made several generation attempts, with store operations
\* before the first and after the last of them
C20_IOAroundTheLoop ==
    /\ pc = "done"
    /\ generation_calls >= 2
    /\ \E i \in DOMAIN io_log : io_log[i][2] = 0
    /\ \E i \in DOMAIN io_log : io_log[i][2] = generation_calls

\* C21: every historical draw a store read returns has exactly number_count
\* numbers, each within the number range of the game: a record with a missing
\* or out-of-range number is not among the draws returned.
C21_ReadDrawsWellFormed ==
    pc = "read_done" =>
        \A i \in DOMAIN historical_data :
            /\ Len(historical_data[i].numbers) = PickCount
            /\ \A k \in DOMAIN historical_data[i].numbers :
                  historical_data[i].numbers[k] \in 1..NumHi

\* C24: the dataset handed to generation is the most recent
\* min(periods, stored count) draws of the store in their stored order, so it
\* never has more than 'periods' draws.
C24_AtMostPeriodsDraws ==
    pc = "read_done" =>
        LET stored == IF manager = "single" THEN read_historical_data(all_records)
                      ELSE get_lottery_data(all_records, Len(all_records))
            count == Min2(periods, Len(stored))
        IN /\ Len(historical_data) <= periods
           /\ Len(stored) = Len(all_records)
                 => historical_data = SubSeq(stored, Len(stored) - count + 1, Len(stored))

\* C22: two runs of an engine on the same inputs, with the same values from
\* the random source, return the same candidate, field by field.
C22_SameRandomSameCandidate ==
    pc = "runs_done" => all_predictions[1] = all_predictions[2]

\* the greatest confidence among the attempts of the round so far
MaxOfRound == CHOOSE c \in SeqToSet(round_confidences) :
                  \A d \in SeqToSet(round_confidences) : d <= c

\* C23: in a round of the retry loop of routes/multi_lottery.py, after every
\* attempt the tracked best candidate is set and has the greatest confidence
\* seen in the round; an attempt replaces it only by a candidate of strictly
\* greater confidence, so it is the earliest candidate with that confidence;
\* entering a round resets it.
C23_BestIsEarliestMaximum ==
    /\ []((route = "multi" /\ pc \in {"while", "for"} /\ attempts >= 1)
            => /\ ~IsNone(best_prediction_this_round)
               /\ best_prediction_this_round.confidence = MaxOfRound
               /\ max_confidence_this_round = MaxOfRound)
    /\ [][(route = "multi" /\ pc = "while" /\ attempts' = attempts + 1
              /\ pc' \in {"while", "for"})
            => best_prediction_this_round' =
                  IF attempts >= 1 /\ prediction_result'.confidence <= MaxOfRound
                  THEN best_prediction_this_round
                  ELSE prediction_result']_vars
    /\ [][(route = "multi" /\ round_no' = round_no + 1)
            => /\ IsNone(best_prediction_this_round')
               /\ max_confidence_this_round' = 0
               /\ attempts' = 0]_vars

\* a second attempt gave another candidate with the confidence of the first:
\* the first stays the best of the round
C23_LaterEqualNotTaken ==
    /\ route = "multi" /\ pc = "while"
    /\ attempts = 2
    /\ round_confidences[1] = round_confidences[2]
    /\ prediction_result # best_prediction_this_round
    /\ prediction_result.confidence = best_prediction_this_round.confidence

\* C25: for every recognized method and every dataset the data_count of the
\* candidate predict_numbers returns is the number of historical draws it was
\* given.
C25_DataCountIsDatasetSize ==
    (pc = "engine_returned" /\ route = "multi" /\ method \in valid_methods)
        => prediction_result.data_count = Len(historical_data)

C27_RecentWindowSize ==
    pc = "windowed" =>
        LET total_draws == Len(historical_data)
            size == Min2(10, total_draws \div 4)
            window == SubSeq(historical_data, total_draws - size + 1, total_draws)
        IN \A num \in DOMAIN recent_counts :
              recent_counts[num] = CountIn(AllNumbers(window), num)

\* C28: in the aggregate built from an accepted batch the special number is
\* not one of the aggregate's main numbers.
C28_AggregateSpecialApart ==
    (pc = "aggregated" /\ route = "single" /\ response.status = 200)
        => response.best_prediction.predicted_special
              \notin SeqToSet(response.best_prediction.predicted_numbers)

\* the calls of save_prediction_result so far
SavedPredictions == Cardinality({i \in DOMAIN io_log : io_log[i][1] = "save_prediction"})

\* C29: a predict request in which a round used up its attempts writes no
\* prediction result to the store: save_prediction_result is called only
\* when every round was accepted, and at most once in a request.
C29_SavedOnlyWhenAllAccepted ==
    route \in {"multi", "single"} =>
        /\ SavedPredictions <= 1
        /\ SavedPredictions = 1 => (exhausted_rounds = 0 /\ round_no = num_predictions)
        /\ (pc = "done" /\ response.status = 200 /\ num_predictions >= 1)
              => SavedPredictions = 1


\* the rows of the worksheet that hold the period
RowsOfPeriod(rows, period) == Cardinality({i \in DOMAIN rows : KeyOf(rows[i]) = period})

\* the draw a store write call would store, had it the worksheet to itself
Storable(item) ==
    manager = "single" => (KeyOf(item) # EmptyPeriod /\ item.numbers_complete)

\* C30: when two concurrent store write calls both carry a draw of one period
\* that the worksheet did not hold, the worksheet holds exactly one row of
\* that period once both calls are over, whatever the order of their steps.
C30_ConcurrentWritesOneRow ==
    (/\ pc = "concurrent"
     /\ \A w \in Writers : writers[w].pc = "done" /\ Len(writers[w].data) = 1
     /\ KeyOf(writers[1].data[1]) = KeyOf(writers[2].data[1])
     /\ \A w \in Writers : Storable(writers[w].data[1])
     /\ RowsOfPeriod(worksheet_before, KeyOf(writers[1].data[1])) = 0)
        => RowsOfPeriod(worksheet, KeyOf(writers[1].data[1])) = 1

====
